---- MODULE Spec2Model ----
(***************************************************************************)
(* Device side of the web broadcast assistant: the command dispatcher      *)
(* (app/src/message.c), the broadcast-assistant state machine              *)
(* (app/src/broadcast_assistant.c), the heartbeat (app/src/heartbeat.c)    *)
(* and the WebUSB transmit queue (webusb.c).                               *)
(*                                                                         *)
(* Execution contexts of the firmware:                                     *)
(*  - the WebUSB work queue thread (preemptible) runs message_handler and  *)
(*    the transmit work; it is modelled by the record h, whose pc field    *)
(*    is the position inside message_handler;                              *)
(*  - the Bluetooth host callbacks, the system work queue and the timer    *)
(*    expiry functions run at higher priority; every callback is one       *)
(*    atomic action that may occur between any two steps of h;             *)
(*  - the link layer is a black box: every call into it may succeed or     *)
(*    fail, and it delivers its events in any order its state allows.      *)
(***************************************************************************)
EXTENDS Integers, Sequences, FiniteSets, TLC

(* ------------------------------ bounds -------------------------------- *)
NumAddrs == 2            \* distinct Bluetooth addresses on air
MaxSeqNo == 1            \* sequence numbers 0..MaxSeqNo
MaxPaAttempt == 1        \* PA-sync attempt budgets 0..MaxPaAttempt
MaxSetSize == 1          \* requested CSIS set sizes 0..MaxSetSize
CONFIG_BT_MAX_CONN == 1  \* entries of csis_members (Kconfig value)
PaIntervalStep == 57     \* PA intervals are sampled in steps of this size
TX_MSG_MAX_MESSAGES == 2 \* CONFIG_TX_MSG_MAX_MESSAGES: buffers in the pool
MaxBeats == 1            \* heartbeat ticks followed
MaxSubgroups == 2        \* subgroups of a receive state
MaxSrcId == 2            \* BASS source ids 1..MaxSrcId
MaxHostLen == 6          \* bytes a transfer decodes to, 0..MaxHostLen
MaxHostByte == 1         \* byte values 0..MaxHostByte in a decoded transfer
MaxRuns == 3              \* runs a test payload is made of
MaxPayloadSize == 65535
MaxLtvLen == 5            \* bytes of an LTV payload
MaxTransfers == 3        \* transfers the read loop is followed for
MaxBisSync == 2          \* BIS-sync values 1..MaxBisSync in a command
MaxBisValues == MaxSubgroups + 1 \* BIS-sync values carried by one command

(* ------------------------- program constants --------------------------- *)
MESSAGE_TYPE_CMD == 1
MESSAGE_TYPE_RES == 2
MESSAGE_TYPE_EVT == 3

BROADCAST_ASSISTANT_SCAN_IDLE == 0
BROADCAST_ASSISTANT_SCAN_SOURCE == 1
BROADCAST_ASSISTANT_SCAN_SINK == 2
BROADCAST_ASSISTANT_SCAN_CSIS == 4

MAX_NUMBER_OF_SOURCES == 50
PA_SYNC_INTERVAL_TO_TIMEOUT_RATIO == 20
BT_BAP_PA_INTERVAL_UNKNOWN == 65535   \* 0xFFFF
BT_GAP_PER_ADV_MIN_TIMEOUT == 10      \* 0x000A, 100 ms
BT_GAP_PER_ADV_MAX_TIMEOUT == 16384   \* 0x4000, 163.84 s
DEFAULT_PA_SYNC_ATTEMPT == 0
\* 0xFFFFFFFF; a bis_sync word is held as the signed 32-bit integer of the
\* same bit pattern
BIG_SYNC_FAILED == 0 - 1

\* errno values returned by the code itself, and the error a failing
\* link-layer call returns (any non-zero value; one representative)
EINVAL == 0 - 22
EBUSY == 0 - 16
LL_ERR == 0 - 5

Addrs == 1..NumAddrs
NoAddr == 0

(* subtypes handled by the switch of message_handler *)
CmdSubTypes ==
  { "HEARTBEAT", "START_SINK_SCAN", "START_SOURCE_SCAN", "START_ALL_SCAN",
    "START_CSIS_SCAN", "STOP_SCAN", "CONNECT_SINK", "DISCONNECT_SINK",
    "ADD_SOURCE", "PA_SYNC", "REMOVE_SOURCE", "BIG_BCODE", "SET_VOLUME",
    "MUTE", "UNMUTE", "RESET" }

\* a subtype value that no case label of the switch matches
UNKNOWN_SUBTYPE == "UNKNOWN"

MessageTypes == { MESSAGE_TYPE_CMD, MESSAGE_TYPE_RES, MESSAGE_TYPE_EVT }

(* ------------------------------ bit masks ------------------------------ *)
ScanBits == { BROADCAST_ASSISTANT_SCAN_SOURCE, BROADCAST_ASSISTANT_SCAN_SINK,
              BROADCAST_ASSISTANT_SCAN_CSIS }

HasBit(m, b) == (m \div b) % 2 = 1

RECURSIVE SumBits(_)
SumBits(S) == IF S = {} THEN 0
              ELSE LET b == CHOOSE x \in S : TRUE IN b + SumBits(S \ {b})

BitOr(a, b) == SumBits({ x \in ScanBits : HasBit(a, x) \/ HasBit(b, x) })
BitClear_All(a, b) == 0

BitClear(a, b) == SumBits({ x \in ScanBits : HasBit(a, x) /\ ~HasBit(b, x) })

(* ------------------------------- state --------------------------------- *)
VARIABLES
  h,                 \* WebUSB work queue thread inside message_handler
  tx_queue,          \* webusb_tx_msg_queue: frames handed to webusb_transmit
  host,              \* the web application's read loop: whether a transferIn
                     \* is outstanding, transfers completed, the array the
                     \* last one decoded to, message events dispatched
  rx,                \* the receive path: cobs_decoded_stream, whether
                     \* webusb_rx_work is queued, the frames decoded so
                     \* far and the frames message_handler was given
  halted,            \* the firmware took a fatal fault
  null_write,        \* a send path wrote through a NULL net_buf
  tx_pool,           \* command_tx_msg_pool: buffers that are free
  heartbeat_on,      \* heartbeat.c: heartbeat_on
  heartbeat_cnt,     \* heartbeat.c: heartbeat_cnt (uint8_t)
  hb_cmds_odd,       \* an odd number of heartbeat commands arrived since the
                     \* last reset command (or since start-up)
  ba_scan_mode,      \* broadcast_assistant.c: ba_scan_mode
  ll_scan,           \* link layer: scanning enabled
  source_data_list,  \* [pa_attempt, data: sequence of [addr, pa_attempt_cd]]
  pa_sync,           \* the pa_sync pointer: NoAddr is NULL, else the source
  ll_pa,             \* link layer: state of the one periodic sync object
  pa_overlap,        \* a create was issued while ll_pa was outstanding
  pa_sync_transfer,  \* broadcast_assistant.c: pa_sync_transfer
  pa_timer,          \* pa_sync_create_timer is running
  del_work,          \* pa_sync_delete_work is pending
  sem_pa_sync,       \* counts of the three semaphores
  sem_add_source,
  sem_rem_source,
  conn,              \* per peer address: state of its connection object
  attempt,           \* [peer, outcome] of the latest connect-sink attempt
  attempt_scan,      \* scan_mode when that connect-sink arrived (0: not scanning)
  bass,              \* per connection: the BASS procedure in flight
  ba_source_id,      \* source id kept for broadcast_assistant_mod_src_cb
  mod_src_id,        \* per connection: src_id of the last mod_src taken
  rem_src_id,        \* per connection: src_id of the last rem_src issued
  rs,                \* the last receive-state callback: connection and
                     \* state reported
  ba_recv_state,     \* per connection: the receive-state snapshot
  vcs_conn,          \* broadcast_assistant.c: vcs_conn (NoAddr is NULL)
  vcs_work,          \* vcs_discover_work is pending
  csis_conn,         \* broadcast_assistant.c: csis_conn (NoAddr is NULL)
  csis_work,         \* csis_discover_work is pending
  csis,              \* [set_size, sirk, members]: CSIS discovery data
  pr,                \* the last periodic advertising report pa_recv_cb got
  pa_create,         \* the last timeout computation of pa_sync_create: the
                     \* PA interval, per_adv_sync_param.timeout and
                     \* create_timeout_duration_ms
  conn_ref,          \* per peer: references the application holds on the
                     \* connection object bt_conn_le_create handed out
  ss                 \* run of successful start-scan commands since idle

vars == << h, tx_queue, tx_pool, host, rx, halted, null_write, heartbeat_on, heartbeat_cnt,
           hb_cmds_odd,
           ba_scan_mode,
           ll_scan, source_data_list, pa_sync, ll_pa, pa_overlap,
           pa_sync_transfer, pa_timer, del_work, sem_pa_sync, sem_add_source,
           sem_rem_source, conn, attempt, attempt_scan, bass, ba_source_id,
           mod_src_id, rem_src_id, rs, pr, conn_ref, pa_create, ba_recv_state,
           vcs_conn, vcs_work, csis_conn, csis_work, csis, ss >>

txv == << tx_queue, tx_pool, halted, null_write, host, rx >>
scanv == << ba_scan_mode, ll_scan, ss >>
pav == << pa_sync, ll_pa, pa_overlap, pa_sync_transfer, pa_timer, del_work,
          sem_pa_sync >>
hbv == << heartbeat_on, heartbeat_cnt, hb_cmds_odd >>
bassv == << ba_source_id, mod_src_id, rem_src_id, rs, pr, conn_ref,
           pa_create >>
connv == << conn, attempt, attempt_scan, bass, bassv, ba_recv_state, sem_add_source,
            sem_rem_source, vcs_conn, vcs_work, csis_conn, csis_work >>

(* ------------------------------ frames --------------------------------- *)
Frame(t, s, n, rc) == [type |-> t, sub |-> s, seq |-> n, rc |-> rc]
NoFrame == Frame(0, "", 0, 0)

\* message_send_net_buf_event prepends type EVT and sequence number 0
Evt(s, rc) == Frame(MESSAGE_TYPE_EVT, s, 0, rc)

\* a frame as message_handler sees it: header fields and the values
\* message_ltv_found parsed out of the payload
InFrame(t, s, n, a, x) ==
  [type |-> t, sub |-> s, seq |-> n, addr |-> a, arg |-> x, bis |-> << >>,
   wf |-> "ok", sirk |-> 0]

\* what cobs_decode left in cobs_decoded_stream for a transfer: "ok" is a
\* header and as many payload bytes as its length field says, "short" is
\* fewer than the 5 bytes of a header (the fields that were not received are
\* the bytes an earlier frame left in the buffer), "mismatch" is a length
\* field that differs from the payload bytes received
RawFrame(f, wf) == [f EXCEPT !.wf = wf]

\* a START_CSIS_SCAN frame whose payload carries BT_DATA_SET_SIZE size and
\* BT_DATA_SIRK sirk (a SIRK is 16 bytes; 0 stands for the all-zero one
\* the memset of parsed_ltv_data leaves)
CsisFrame(n, size, sirk) ==
  [InFrame(MESSAGE_TYPE_CMD, "START_CSIS_SCAN", n, NoAddr, size)
     EXCEPT !.sirk = sirk]

\* a frame whose payload carries a BT_DATA_BIS_SYNC structure of the 32-bit
\* values vals
BisFrame(s, a, vals) ==
  [InFrame(MESSAGE_TYPE_CMD, s, 0, a, 0) EXCEPT !.bis = vals]

\* message_ltv_found, case BT_DATA_BIS_SYNC: num_subgroups is
\* data_len / sizeof(uint32_t) and memcpy copies all data_len bytes into
\* bis_sync[CONFIG_BT_BAP_BASS_MAX_SUBGROUPS], whatever their number
ltv_num_subgroups(vals) == Len(vals) % 256
ltv_bis_sync(vals) == vals

(* --------------------------- transmit path ----------------------------- *)
\* message_alloc_tx: net_buf_alloc(K_NO_WAIT) returns a buffer while the pool
\* has a free one (free: the free buffers of command_tx_msg_pool)
message_alloc_tx_Always(free) == TRUE

message_alloc_tx(free) == free > 0

\* net_buf_unref in webusb_tx_work_handler: the buffer goes back to the pool
net_buf_unref(free) == free + 1

\* webusb_transmit: k_msgq_put(K_NO_WAIT) of the buffer, which is refused
\* when webusb_tx_msg_queue holds CONFIG_TX_MSG_MAX_MESSAGES entries; the
\* buffer of a refused frame is not released
webusb_transmit(q, f) ==
  IF Len(q) < TX_MSG_MAX_MESSAGES THEN Append(q, f) ELSE q

\* the queue and the free buffers after the frames fs were sent one by one,
\* each with message_alloc_tx and webusb_transmit
RECURSIVE SendEach(_, _)
SendEach(s, fs) ==
  IF fs = << >> THEN s
  ELSE SendEach(IF message_alloc_tx(s.free)
                THEN [q |-> webusb_transmit(s.q, Head(fs)), free |-> s.free - 1]
                ELSE s,
                Tail(fs))

SendAll(q, fs) == SendEach([q |-> q, free |-> tx_pool], fs).q

AllocFails(q, fs) == Len(fs) > tx_pool

\* Every send path: buf = message_alloc_tx(); net_buf_add_*(buf, ...);
\* webusb_transmit(buf). No path tests buf before writing, so a failed
\* allocation is followed by writes through NULL: the frame is lost and
\* the firmware either faults or runs on.
Transmit(fs) ==
  /\ tx_queue' = SendAll(tx_queue, fs)
  /\ tx_pool' = SendEach([q |-> tx_queue, free |-> tx_pool], fs).free
  /\ null_write' = (null_write \/ AllocFails(tx_queue, fs))
  /\ halted' \in (IF AllocFails(tx_queue, fs) THEN BOOLEAN ELSE {FALSE})
  /\ host' = host
  /\ rx' = rx

(* ------------------------------- Init ---------------------------------- *)
IdleH == [pc |-> "idle", type |-> 0, sub |-> "", seq |-> 0, addr |-> NoAddr,
          arg |-> 0, i |-> 0, rc |-> 0, nres |-> 0, res |-> NoFrame, llfail |-> FALSE,
          num_subgroups |-> 0, bis_sync |-> << >>, subgroup |-> << >>,
          wf |-> "ok", sirk |-> 0]

SsOff == [on |-> FALSE, modes |-> 0, starts |-> 0]

NoAttempt == [peer |-> NoAddr, outcome |-> "none"]

\* a zeroed bt_bap_scan_delegator_recv_state: BT_BAP_BIG_ENC_STATE_NO_ENC
\* and BT_BAP_PA_STATE_NOT_SYNCED are the enumerators of value 0
ZeroRecvState == [encrypt_state |-> "NO_ENC", pa_sync_state |-> "NOT_SYNCED",
                  num_subgroups |-> 0,
                  bis_sync |-> [i \in 1..MaxSubgroups |-> 0]]

NoPaReport == [sync |-> NoAddr, base_found |-> FALSE]
NoReport == [a |-> NoAddr, st |-> ZeroRecvState]

\* the web application before a device is opened
NoCall == [fn |-> "", zeropad |-> FALSE, x |-> << >>, ret |-> << >>]
HostClosed == [reading |-> FALSE, n |-> 0, data |-> << >>, msgs |-> 0,
               js |-> NoCall]

\* the receive path before the first transfer: cobs_decoded_stream is
\* zero-initialised and webusb_rx_work is not queued
RxIdle == [stream |-> InFrame(0, "", 0, NoAddr, 0), work |-> FALSE,
           recv |-> << >>, disp |-> << >>]

Init ==
  /\ h = IdleH
  /\ host = HostClosed
  /\ rx = RxIdle
  /\ tx_queue = << >>
  /\ halted = FALSE
  /\ null_write = FALSE
  /\ tx_pool = TX_MSG_MAX_MESSAGES
  /\ heartbeat_on = FALSE
  /\ heartbeat_cnt = 0
  /\ hb_cmds_odd = FALSE
  /\ ba_scan_mode = BROADCAST_ASSISTANT_SCAN_IDLE
  /\ ll_scan = FALSE
  /\ source_data_list = [pa_attempt |-> 0, data |-> << >>, outside |-> FALSE]
  /\ pa_sync = NoAddr
  /\ ll_pa = "none"
  /\ pa_overlap = FALSE
  /\ pa_sync_transfer = FALSE
  /\ pa_timer = FALSE
  /\ del_work = FALSE
  /\ sem_pa_sync = 0
  /\ sem_add_source = 1
  /\ sem_rem_source = 1
  /\ conn = [a \in Addrs |-> "none"]
  /\ attempt = NoAttempt
  /\ attempt_scan = 0
  /\ bass = [a \in Addrs |-> "idle"]
  /\ ba_source_id = 0
  /\ mod_src_id = [a \in Addrs |-> 0]
  /\ rem_src_id = [a \in Addrs |-> 0]
  /\ rs = NoReport
  /\ pr = NoPaReport
  /\ conn_ref = [a \in Addrs |-> 0]
  /\ pa_create = [interval |-> 0, timeout |-> 0, duration_ms |-> 0]
  /\ ba_recv_state = [a \in Addrs |-> ZeroRecvState]
  /\ vcs_conn = NoAddr
  /\ vcs_work = FALSE
  /\ csis_conn = NoAddr
  /\ csis_work = FALSE
  /\ csis = [set_size |-> 0, sirk |-> 0, members |-> << >>]
  /\ ss = SsOff

(* ----------------------- message_handler: framing ---------------------- *)
\* webusb_rx_work_handler hands a decoded frame to message_handler, which
\* reads sub_type and seq_no (the type field is not read) and parses the
\* payload into parsed_ltv_data
message_handler(f) ==
  /\ h' = [IdleH EXCEPT !.pc = "dispatch", !.type = f.type, !.sub = f.sub,
                        !.seq = f.seq, !.addr = f.addr, !.arg = f.arg,
                        !.wf = f.wf, !.sirk = f.sirk,
                        !.num_subgroups = ltv_num_subgroups(f.bis),
                        !.bis_sync = ltv_bis_sync(f.bis)]
  /\ hb_cmds_odd' = IF f.type # MESSAGE_TYPE_CMD THEN hb_cmds_odd
                    ELSE IF f.sub = "HEARTBEAT" THEN ~hb_cmds_odd
                    ELSE IF f.sub = "RESET" THEN FALSE
                    ELSE hb_cmds_odd
  /\ UNCHANGED << heartbeat_on, heartbeat_cnt, scanv, source_data_list,
                  pav, connv, csis >>

\* a transfer that is decoded and handled while the work queue is idle and
\* before the next transfer completes
RxWork(f) ==
  /\ ~halted
  /\ h.pc = "idle"
  /\ message_handler(f)
  /\ UNCHANGED txv

\* webusb_read_cb for a transfer that cobs_decode accepts: the decoded
\* bytes replace the content of cobs_decoded_stream and webusb_rx_work is
\* submitted, which does nothing when the work is already queued. The
\* callback runs in the USB thread, at any time.
webusb_read_cb(f) ==
  /\ ~halted
  /\ Len(rx.recv) < MaxTransfers
  /\ rx' = [stream |-> f, work |-> TRUE, recv |-> Append(rx.recv, f),
            disp |-> rx.disp]
  /\ UNCHANGED << h, tx_queue, tx_pool, halted, null_write, host, hbv, scanv,
                  source_data_list, pav, connv, csis >>

\* webusb_rx_work_handler: message_handler is given a pointer to
\* cobs_decoded_stream
webusb_rx_work_handler ==
  /\ ~halted
  /\ h.pc = "idle"
  /\ rx.work
  /\ message_handler(rx.stream)
  /\ rx' = [rx EXCEPT !.work = FALSE, !.disp = Append(@, rx.stream)]
  /\ UNCHANGED << tx_queue, tx_pool, halted, null_write, host >>

\* webusb_rx_work_handler preempted by webusb_read_cb after message_handler
\* has read the header and before bt_data_parse reads the payload: the
\* handler sees the header of one frame and the payload of the next, and
\* the work is queued again
webusb_rx_work_handler_preempted(f) ==
  LET seen == [rx.stream EXCEPT !.addr = f.addr, !.arg = f.arg,
                                !.bis = f.bis, !.sirk = f.sirk]
  IN /\ ~halted
     /\ h.pc = "idle"
     /\ rx.work
     /\ Len(rx.recv) < MaxTransfers
     /\ message_handler(seen)
     /\ rx' = [stream |-> f, work |-> TRUE, recv |-> Append(rx.recv, f),
               disp |-> Append(rx.disp, seen)]
     /\ UNCHANGED << tx_queue, tx_pool, halted, null_write, host >>

\* the tail of every case of the switch: message_send_return_code(RES,
\* subtype, seq, rc), after the event frames evts the command itself sent
Finish(rc, llf, evts) ==
  LET res == Frame(MESSAGE_TYPE_RES, h.sub, h.seq, rc)
      queued == message_alloc_tx(
                  SendEach([q |-> tx_queue, free |-> tx_pool], evts).free)
  IN /\ Transmit(evts \o << res >>)
     /\ h' = [h EXCEPT !.pc = "done", !.rc = rc, !.llfail = llf,
                       !.nres = IF queued THEN 1 ELSE 0,
                       !.res = IF queued THEN res ELSE NoFrame]

\* message_handler returns to the work queue
Return ==
  /\ ~halted
  /\ h.pc = "done"
  /\ h' = IdleH
  /\ UNCHANGED << txv, hbv, scanv, source_data_list, pav, connv, csis >>

\* webusb_tx_work_handler taking the newest frame of the queue instead of
\* the oldest
TxWork_Newest ==
  /\ ~halted
  /\ h.pc = "idle"
  /\ tx_queue # << >>
  /\ tx_queue' = SubSeq(tx_queue, 1, Len(tx_queue) - 1)
  /\ tx_pool' = net_buf_unref(tx_pool)
  /\ UNCHANGED << h, halted, null_write, host, rx, hbv, scanv, source_data_list,
                  pav, connv, csis >>

\* webusb_tx_work_handler: one turn of its loop (k_msgq_get, cobs_encode,
\* net_buf_unref, usb_transfer_sync); it runs on the work queue thread, so
\* only while that thread is not inside message_handler
TxWork ==
  /\ ~halted
  /\ h.pc = "idle"
  /\ tx_queue # << >>
  /\ tx_queue' = Tail(tx_queue)
  /\ tx_pool' = net_buf_unref(tx_pool)
  /\ UNCHANGED << h, halted, null_write, host, rx, hbv, scanv, source_data_list,
                  pav, connv, csis >>

(* ------------------------------ heartbeat ------------------------------ *)
\* heartbeat_toggle that only ever switches the heartbeat on
heartbeat_toggle_Set(on) == TRUE

heartbeat_toggle(on) == ~on

heartbeat_stop(on) == FALSE

\* case MESSAGE_SUBTYPE_HEARTBEAT
CmdHeartbeat ==
  /\ ~halted
  /\ h.pc = "dispatch" /\ h.sub = "HEARTBEAT"
  /\ heartbeat_on' = heartbeat_toggle(heartbeat_on)
  /\ Finish(0, FALSE, << >>)
  /\ UNCHANGED << heartbeat_cnt, hb_cmds_odd, scanv, source_data_list, pav,
                  connv, csis >>

\* heartbeat_timeout_handler: EVT HEARTBEAT carrying heartbeat_cnt++
HeartbeatTick ==
  /\ ~halted
  /\ heartbeat_on
  /\ heartbeat_cnt < MaxBeats
  /\ Transmit(<< Frame(MESSAGE_TYPE_EVT, "HEARTBEAT", heartbeat_cnt, 0) >>)
  /\ heartbeat_cnt' = (heartbeat_cnt + 1) % 256
  /\ UNCHANGED << h, heartbeat_on, hb_cmds_odd, scanv, source_data_list, pav,
                  connv, csis >>

\* case MESSAGE_SUBTYPE_START_ALL_SCAN: not supported
CmdStartAllScan ==
  /\ ~halted
  /\ h.pc = "dispatch" /\ h.sub = "START_ALL_SCAN"
  /\ Finish(0 - 1, FALSE, << >>)
  /\ UNCHANGED << hbv, scanv, source_data_list, pav, connv, csis >>

\* default: of the switch
CmdUnknown ==
  /\ ~halted
  /\ h.pc = "dispatch" /\ h.sub \notin CmdSubTypes
  /\ Finish(0 - 1, FALSE, << >>)
  /\ UNCHANGED << hbv, scanv, source_data_list, pav, connv, csis >>

(* ------------------------- shared sub-procedures ----------------------- *)
Min(a, b) == IF a < b THEN a ELSE b

\* restart_scanning_if_needed: a refused scan start clears ba_scan_mode
restart_scanning_if_needed(ok) ==
  /\ ba_scan_mode' = IF ba_scan_mode # BROADCAST_ASSISTANT_SCAN_IDLE /\ ~ok
                     THEN BROADCAST_ASSISTANT_SCAN_IDLE ELSE ba_scan_mode
  /\ ll_scan' = (ll_scan \/ (ba_scan_mode # BROADCAST_ASSISTANT_SCAN_IDLE /\ ok))
  /\ ss' = IF ba_scan_mode # BROADCAST_ASSISTANT_SCAN_IDLE /\ ss.on
           THEN [ss EXCEPT !.starts = Min(@ + 1, 2)] ELSE ss

\* pa_sync_delete: k_timer_stop, k_work_submit(&pa_sync_delete_work)
pa_sync_delete ==
  /\ pa_timer' = FALSE
  /\ del_work' = TRUE

\* the link layer holds one periodic sync: it takes a create only while it
\* holds none
CreateAccepted(addr, ok) == ok /\ ll_pa = "none" /\ addr \in Addrs

\* BT_GAP_PER_ADV_INTERVAL_TO_MS: units of 1.25 ms to ms, in integers
BT_GAP_PER_ADV_INTERVAL_TO_MS(interval) == (interval * 5) \div 4

CLAMP(val, low, high) == IF val < low THEN low ELSE IF val > high THEN high ELSE val

\* interval_to_sync_timeout: the sync timeout in units of 10 ms (uint16_t;
\* the interval arithmetic is uint32_t and stays far below 2^32)
interval_to_sync_timeout(pa_interval) ==
  IF pa_interval = BT_BAP_PA_INTERVAL_UNKNOWN
  THEN BT_GAP_PER_ADV_MAX_TIMEOUT
  ELSE CLAMP((BT_GAP_PER_ADV_INTERVAL_TO_MS(pa_interval)
                * PA_SYNC_INTERVAL_TO_TIMEOUT_RATIO) \div 10,
             BT_GAP_PER_ADV_MIN_TIMEOUT, BT_GAP_PER_ADV_MAX_TIMEOUT)

\* uint16_t create_timeout_duration_ms = per_adv_sync_param.timeout * 10U:
\* the product is computed in unsigned int and converted to 16 bits
create_timeout_duration_ms(timeout) == (timeout * 10) % 65536

\* the timeout computation at the head of pa_sync_create, for a PA interval
\* of any 16-bit value
PaSyncCreateTimeout(interval) ==
  /\ ~halted
  /\ pa_create' =
       [interval |-> interval,
        timeout |-> interval_to_sync_timeout(interval),
        duration_ms |->
          create_timeout_duration_ms(interval_to_sync_timeout(interval))]
  /\ UNCHANGED << h, txv, hbv, scanv, source_data_list, pav, conn, attempt,
                  attempt_scan, bass, ba_source_id, mod_src_id, rem_src_id,
                  rs, pr, conn_ref, ba_recv_state, sem_add_source,
                  sem_rem_source, vcs_conn, vcs_work, csis_conn, csis_work,
                  csis >>

\* pa_sync_create: the create timer is started first, then the create is
\* issued; pa_sync is written only when the link layer accepts
pa_sync_create(addr, ok) ==
  /\ pa_timer' = TRUE
  /\ pa_overlap' = (pa_overlap \/ ll_pa # "none")
  /\ pa_sync' = IF CreateAccepted(addr, ok) THEN addr ELSE pa_sync
  /\ ll_pa' = IF CreateAccepted(addr, ok) THEN "pending" ELSE ll_pa

\* k_sem_give on a semaphore of limit 1
k_sem_give(count) == Min(count + 1, 1)

\* bt_conn_get_info(...).state == BT_CONN_STATE_CONNECTED
Connected(a) == conn[a] \in { "securing", "discovering", "ready", "linked" }

\* bt_conn_disconnect: accepted for a connection being created (the create
\* is cancelled) or established; the object stays until its callback
CanDisconnect(a) == conn[a] = "connecting" \/ Connected(a)

bt_conn_disconnect(a, ok) ==
  IF ~(ok /\ CanDisconnect(a)) THEN conn[a]
  ELSE IF conn[a] = "connecting" THEN "cancelling" ELSE "closing"

\* reset_source_data: the list is emptied and the attempt budget stored.
\* The loop clears the address of each of the MAX_NUMBER_OF_SOURCES slots,
\* and on every pass it zeroes pa_attempt_cd of slot source_data_list.num,
\* the first unused one, which lies behind the array when the list is full
\* (outside: that store left the array; what it overwrites is up to the
\* build)
reset_source_data(pa_attempt) ==
  [pa_attempt |-> pa_attempt, data |-> << >>,
   outside |-> ~(Len(source_data_list.data) < MAX_NUMBER_OF_SOURCES)]

\* the sequence of the addresses in S, in the order bt_conn_foreach visits
\* the connection objects
RECURSIVE SeqOf(_)
SeqOf(S) == IF S = {} THEN << >>
            ELSE LET a == CHOOSE x \in S : \A y \in S : x <= y
                 IN << a >> \o SeqOf(S \ {a})

\* reset_csis_data: every connection object becomes a member
reset_csis_data(set_size, sirk) ==
  [set_size |-> set_size, sirk |-> sirk,
   members |-> SeqOf({ a \in Addrs : conn[a] # "none" })]

(* --------------------------- scan commands ----------------------------- *)
StartScanSubs == { "START_SINK_SCAN", "START_SOURCE_SCAN", "START_CSIS_SCAN" }

ModeOf(sub) ==
  CASE sub = "START_SINK_SCAN" -> BROADCAST_ASSISTANT_SCAN_SINK
    [] sub = "START_SOURCE_SCAN" -> BROADCAST_ASSISTANT_SCAN_SOURCE
    [] sub = "START_CSIS_SCAN" -> BROADCAST_ASSISTANT_SCAN_CSIS

\* broadcast_assistant_start_scan; ok is the result of bt_le_scan_start
CmdStartScan(ok) ==
  LET mode == ModeOf(h.sub)
      idle == ba_scan_mode = BROADCAST_ASSISTANT_SCAN_IDLE
  IN /\ ~halted
     /\ h.pc = "dispatch" /\ h.sub \in StartScanSubs
     /\ IF idle /\ ~ok
        THEN /\ Finish(LL_ERR, TRUE, << >>)
             /\ UNCHANGED << scanv, source_data_list, csis >>
        ELSE /\ ll_scan' = (ll_scan \/ idle)
             /\ source_data_list' =
                  IF mode = BROADCAST_ASSISTANT_SCAN_SOURCE
                  THEN reset_source_data(h.arg) ELSE source_data_list
             /\ csis' = IF mode = BROADCAST_ASSISTANT_SCAN_CSIS
                        THEN reset_csis_data(h.arg, h.sirk) ELSE csis
             /\ ba_scan_mode' = BitOr(ba_scan_mode, mode)
             /\ ss' = IF idle THEN [on |-> TRUE, modes |-> mode, starts |-> 1]
                      ELSE IF ss.on THEN [ss EXCEPT !.modes = BitOr(@, mode)]
                      ELSE ss
             /\ Finish(0, FALSE, << >>)
     /\ attempt_scan' = 0
     /\ UNCHANGED << hbv, pav, conn, attempt, bass, bassv, ba_recv_state,
                     sem_add_source, sem_rem_source, vcs_conn, vcs_work,
                     csis_conn, csis_work >>

\* broadcast_assistant_stop_scanning; ok is the result of bt_le_scan_stop
StopScanning(ok) ==
  IF ba_scan_mode = BROADCAST_ASSISTANT_SCAN_IDLE \/ ~ok
  THEN UNCHANGED << ba_scan_mode, ll_scan, pa_timer, del_work >>
  ELSE /\ ll_scan' = FALSE
       /\ ba_scan_mode' = BROADCAST_ASSISTANT_SCAN_IDLE
       /\ pa_sync_delete

StopScanningRc(ok) ==
  IF ba_scan_mode # BROADCAST_ASSISTANT_SCAN_IDLE /\ ~ok THEN LL_ERR ELSE 0

\* case MESSAGE_SUBTYPE_STOP_SCAN
CmdStopScan(ok) ==
  /\ ~halted
  /\ h.pc = "dispatch" /\ h.sub = "STOP_SCAN"
  /\ StopScanning(ok)
  /\ ss' = SsOff
  /\ attempt_scan' = 0
  /\ Finish(StopScanningRc(ok), StopScanningRc(ok) # 0, << >>)
  /\ UNCHANGED << hbv, source_data_list, pa_sync, ll_pa, pa_overlap,
                  pa_sync_transfer, sem_pa_sync, conn, attempt, bass, bassv,
                  ba_recv_state, sem_add_source, sem_rem_source, vcs_conn,
                  vcs_work, csis_conn, csis_work, csis >>

(* ------------------------ connection commands -------------------------- *)
\* broadcast_assistant_connect_to_sink up to k_sleep(K_MSEC(100)): the scan
\* is stopped when scan_mode is non-zero, the PA sync handed to deletion
CmdConnectSink(ok) ==
  /\ ~halted
  /\ h.pc = "dispatch" /\ h.sub = "CONNECT_SINK"
  /\ IF ba_scan_mode # BROADCAST_ASSISTANT_SCAN_IDLE /\ ~ok
     THEN /\ Finish(LL_ERR, TRUE, << >>)
          /\ attempt' = NoAttempt
          /\ attempt_scan' = 0
          /\ UNCHANGED << ll_scan, pa_timer, del_work >>
     ELSE /\ ll_scan' = (ll_scan /\ ba_scan_mode = BROADCAST_ASSISTANT_SCAN_IDLE)
          /\ pa_sync_delete
          /\ h' = [h EXCEPT !.pc = "cs_sleep"]
          /\ attempt' = [peer |-> h.addr, outcome |-> "creating"]
          /\ attempt_scan' = ba_scan_mode
          /\ UNCHANGED txv
  /\ ss' = SsOff
  /\ UNCHANGED << hbv, ba_scan_mode, source_data_list, pa_sync, ll_pa,
                  pa_overlap, pa_sync_transfer, sem_pa_sync, conn, bass, bassv,
                  ba_recv_state, sem_add_source, sem_rem_source, vcs_conn,
                  vcs_work, csis_conn, csis_work, csis >>

\* bt_conn_le_create takes the request only for a valid peer address that
\* has no connection object yet
CanCreate(a) == a \in Addrs /\ conn[a] = "none"

\* the rest of broadcast_assistant_connect_to_sink: bt_conn_le_create, and
\* restart_scanning_if_needed when it fails
CmdConnectSinkCreate(ok, ok_scan) ==
  /\ ~halted
  /\ h.pc = "cs_sleep"
  /\ IF ok /\ CanCreate(h.addr)
     THEN /\ conn' = [conn EXCEPT ![h.addr] = "connecting"]
          /\ conn_ref' = [conn_ref EXCEPT ![h.addr] = 1]
          /\ attempt' = [attempt EXCEPT !.outcome = "pending"]
          /\ Finish(0, FALSE, << >>)
          /\ UNCHANGED << scanv >>
     ELSE /\ restart_scanning_if_needed(ok_scan)
          /\ attempt' = [attempt EXCEPT !.outcome = "create_failed"]
          /\ Finish(LL_ERR, TRUE, << >>)
          /\ UNCHANGED << conn, conn_ref >>
  /\ UNCHANGED << hbv, source_data_list, pav, attempt_scan, bass,
                  ba_source_id, mod_src_id, rem_src_id, rs, pr, pa_create,
                  ba_recv_state, sem_add_source, sem_rem_source, vcs_conn,
                  vcs_work, csis_conn, csis_work, csis >>

\* broadcast_assistant_disconnect_from_sink: a refused disconnect is
\* reported by an event only; the function returns 0
CmdDisconnectSink(ok) ==
  LET found == h.addr \in Addrs /\ conn[h.addr] # "none"
      fail == found /\ ~(ok /\ CanDisconnect(h.addr))
  IN /\ ~halted
     /\ h.pc = "dispatch" /\ h.sub = "DISCONNECT_SINK"
     /\ conn' = IF found
                THEN [conn EXCEPT ![h.addr] = bt_conn_disconnect(h.addr, ok)]
                ELSE conn
     /\ Finish(0, fail,
               IF fail THEN << Evt("SINK_DISCONNECTED", LL_ERR) >> ELSE << >>)
     /\ UNCHANGED << hbv, scanv, source_data_list, pav, attempt, attempt_scan,
                     bass, bassv, ba_recv_state, sem_add_source, sem_rem_source,
                     vcs_conn, vcs_work, csis_conn, csis_work, csis >>

\* broadcast_assistant_reset: stop_scanning (result dropped), disconnect of
\* every connection object (D: those whose disconnect is accepted), unpair;
\* then RES 0 and heartbeat_stop, which a fault in the send keeps from
\* running
CmdReset(ok, D) ==
  /\ ~halted
  /\ h.pc = "dispatch" /\ h.sub = "RESET"
  /\ StopScanning(ok)
  /\ ss' = SsOff
  /\ attempt_scan' = 0
  /\ conn' = [a \in Addrs |-> IF conn[a] = "none" THEN "none"
                               ELSE bt_conn_disconnect(a, a \in D)]
  /\ Finish(0, FALSE, << >>)
  /\ heartbeat_on' = IF halted' THEN heartbeat_on
                     ELSE heartbeat_stop(heartbeat_on)
  /\ UNCHANGED << heartbeat_cnt, hb_cmds_odd, source_data_list, pa_sync, ll_pa, pa_overlap,
                  pa_sync_transfer, sem_pa_sync, attempt, bass, bassv, ba_recv_state,
                  sem_add_source, sem_rem_source, vcs_conn, vcs_work,
                  csis_conn, csis_work, csis >>

\* broadcast_assistant_add_broadcast_code: set_broadcast_code on every
\* connected sink, failures logged; returns 0
CmdBigBcode ==
  /\ ~halted
  /\ h.pc = "dispatch" /\ h.sub = "BIG_BCODE"
  /\ Finish(0, FALSE, << >>)
  /\ UNCHANGED << hbv, scanv, source_data_list, pav, connv, csis >>

\* broadcast_assistant_set_volume / broadcast_assistant_set_mute: -EINVAL
\* without a connection object or when the volume controller refuses
CmdVolume(ok) ==
  /\ ~halted
  /\ h.pc = "dispatch" /\ h.sub \in { "SET_VOLUME", "MUTE", "UNMUTE" }
  /\ Finish(IF h.addr \in Addrs /\ conn[h.addr] # "none" /\ ok
            THEN 0 ELSE EINVAL, FALSE, << >>)
  /\ UNCHANGED << hbv, scanv, source_data_list, pav, connv, csis >>

(* --------------------------- source commands --------------------------- *)
\* source_data_get: the entry of addr, if the list has one
source_data_get(addr) ==
  { i \in 1..Len(source_data_list.data) : source_data_list.data[i].addr = addr }

\* BT_BAP_BIS_SYNC_NO_PREF, 0xFFFFFFFF as a signed 32-bit value
BT_BAP_BIS_SYNC_NO_PREF == 0 - 1

\* the subgroups broadcast_assistant_add_source passes to add_src:
\* MIN(num_subgroups, CONFIG_BT_BAP_BASS_MAX_SUBGROUPS) values copied from
\* bis_sync, or one subgroup without preference when there is none
AddSrcSubgroups(num_subgroups, bis_sync) ==
  LET n == Min(num_subgroups, MaxSubgroups)
  IN IF n = 0 THEN << BT_BAP_BIS_SYNC_NO_PREF >>
     ELSE [i \in 1..n |-> bis_sync[i]]

\* the peers whose LE features include PAST reception
PastPeers == { 1 }

\* past_available: the remote feature bit (the local controller sends PAST)
past_available(a) == a \in PastPeers

\* check_past_available_foreach_sink over the connections: the callback
\* keeps past_available's value in a local and logs it; the result field of
\* its argument is left as it was
check_past_available(result) ==
  LET logged == { a \in Addrs : Connected(a) /\ past_available(a) }
  IN result

\* broadcast_assistant_add_source up to its first blocking point:
\* result starts true and check_past_available_foreach_sink runs; with
\* result set k_sem_reset, and with a PA sync present pa_sync_delete and
\* k_sem_take(K_FOREVER)
CmdAddSource ==
  /\ ~halted
  /\ h.pc = "dispatch" /\ h.sub = "ADD_SOURCE"
  /\ IF ~check_past_available(TRUE)
     THEN /\ h' = [h EXCEPT !.pc = "as_add", !.i = 1,
                      !.subgroup = AddSrcSubgroups(h.num_subgroups, h.bis_sync)]
          /\ UNCHANGED << sem_pa_sync, pa_timer, del_work >>
     ELSE /\ sem_pa_sync' = 0
          /\ IF pa_sync # NoAddr
             THEN /\ pa_sync_delete
                  /\ h' = [h EXCEPT !.pc = "as_wait_del"]
             ELSE /\ UNCHANGED << pa_timer, del_work >>
                  /\ h' = [h EXCEPT !.pc = "as_chk"]
  /\ UNCHANGED << txv, hbv, scanv, source_data_list, pa_sync, ll_pa,
                  pa_overlap, pa_sync_transfer, connv, csis >>

\* k_sem_take(&sem_pa_sync, K_FOREVER) returns: "Wait for PA sync stopped"
AddSourceWaitStopped ==
  /\ ~halted
  /\ h.pc = "as_wait_del"
  /\ sem_pa_sync > 0
  /\ sem_pa_sync' = 0
  /\ h' = [h EXCEPT !.pc = "as_chk"]
  /\ UNCHANGED << txv, hbv, scanv, source_data_list, pa_sync, ll_pa,
                  pa_overlap, pa_sync_transfer, pa_timer, del_work, connv,
                  csis >>

\* if (pa_sync == NULL)
AddSourceCheck ==
  /\ ~halted
  /\ h.pc = "as_chk"
  /\ h' = IF pa_sync = NoAddr THEN [h EXCEPT !.pc = "as_create"]
          ELSE [h EXCEPT !.pc = "as_add", !.i = 1,
                     !.subgroup = AddSrcSubgroups(h.num_subgroups, h.bis_sync)]
  /\ UNCHANGED << txv, hbv, scanv, source_data_list, pav, connv, csis >>

\* pa_sync_create; on success pa_sync_transfer = true and
\* k_sem_take(K_FOREVER)
AddSourceCreate(ok) ==
  /\ ~halted
  /\ h.pc = "as_create"
  /\ pa_sync_create(h.addr, ok)
  /\ pa_sync_transfer' = (pa_sync_transfer \/ CreateAccepted(h.addr, ok))
  /\ h' = IF CreateAccepted(h.addr, ok) THEN [h EXCEPT !.pc = "as_wait_sync"]
          ELSE [h EXCEPT !.pc = "as_add", !.i = 1,
                     !.subgroup = AddSrcSubgroups(h.num_subgroups, h.bis_sync)]
  /\ UNCHANGED << txv, hbv, scanv, source_data_list, del_work, sem_pa_sync,
                  connv, csis >>

\* k_sem_take(&sem_pa_sync, K_FOREVER) returns: "Wait for PA synced"
AddSourceWaitSynced ==
  /\ ~halted
  /\ h.pc = "as_wait_sync"
  /\ sem_pa_sync > 0
  /\ sem_pa_sync' = 0
  /\ h' = [h EXCEPT !.pc = "as_add", !.i = 1,
                     !.subgroup = AddSrcSubgroups(h.num_subgroups, h.bis_sync)]
  /\ UNCHANGED << txv, hbv, scanv, source_data_list, pa_sync, ll_pa,
                  pa_overlap, pa_sync_transfer, pa_timer, del_work, connv,
                  csis >>

\* a BASS write is taken for a sink whose discovery is complete and that has
\* no procedure in flight
BassAccepted(a, ok) == ok /\ conn[a] = "ready" /\ bass[a] = "idle"

\* add_source_foreach_sink for connection h.i: k_sem_take(&sem_add_source,
\* 2000 ms) ends by the take or by the timeout, the snapshot is cleared,
\* add_src is issued and its error only logged
AddSourceSink(ok) ==
  /\ ~halted
  /\ h.pc = "as_add" /\ h.i <= NumAddrs
  /\ IF Connected(h.i)
     THEN /\ sem_add_source' = 0
          /\ ba_recv_state' = [ba_recv_state EXCEPT ![h.i] = ZeroRecvState]
          /\ bass' = IF BassAccepted(h.i, ok)
                     THEN [bass EXCEPT ![h.i] = "add"] ELSE bass
          /\ h' = [h EXCEPT !.i = @ + 1,
                            !.llfail = @ \/ ~BassAccepted(h.i, ok)]
     ELSE /\ h' = [h EXCEPT !.i = @ + 1]
          /\ UNCHANGED << sem_add_source, ba_recv_state, bass >>
  /\ UNCHANGED << txv, hbv, scanv, source_data_list, pav, conn, attempt,
                  attempt_scan, bassv, sem_rem_source, vcs_conn, vcs_work,
                  csis_conn, csis_work, csis >>

\* broadcast_assistant_add_source: return 0
AddSourceReturn ==
  /\ ~halted
  /\ h.pc = "as_add" /\ h.i > NumAddrs
  /\ Finish(0, h.llfail, << >>)
  /\ UNCHANGED << hbv, scanv, source_data_list, pav, connv, csis >>

\* broadcast_assistant_pa_sync up to pa_sync_create
CmdPaSync ==
  /\ ~halted
  /\ h.pc = "dispatch" /\ h.sub = "PA_SYNC"
  /\ IF source_data_get(h.addr) = {} THEN Finish(EINVAL, FALSE, << >>)
     ELSE IF pa_sync # NoAddr THEN Finish(EBUSY, FALSE, << >>)
     ELSE h' = [h EXCEPT !.pc = "ps_create"] /\ UNCHANGED txv
  /\ UNCHANGED << hbv, scanv, source_data_list, pav, connv, csis >>

\* pa_sync_create of broadcast_assistant_pa_sync and its return
PaSyncCmdCreate(ok) ==
  /\ ~halted
  /\ h.pc = "ps_create"
  /\ pa_sync_create(h.addr, ok)
  /\ IF CreateAccepted(h.addr, ok) THEN Finish(0, FALSE, << >>)
     ELSE Finish(LL_ERR, TRUE, << >>)
  /\ UNCHANGED << hbv, scanv, source_data_list, pa_sync_transfer, del_work,
                  sem_pa_sync, connv, csis >>

\* broadcast_assistant_remove_source up to bt_conn_foreach: the source id
\* (h.arg) is stored in ba_source_id for broadcast_assistant_mod_src_cb
CmdRemoveSource ==
  /\ ~halted
  /\ h.pc = "dispatch" /\ h.sub = "REMOVE_SOURCE"
  /\ h' = [h EXCEPT !.pc = "rs_mod", !.i = 1]
  /\ ba_source_id' = h.arg
  /\ UNCHANGED << txv, hbv, scanv, source_data_list, pav, conn, attempt,
                  attempt_scan, bass, mod_src_id, rem_src_id, rs, pr, conn_ref, pa_create, ba_recv_state,
                  sem_add_source, sem_rem_source, vcs_conn, vcs_work,
                  csis_conn, csis_work, csis >>

\* remove_source_foreach_sink for connection h.i: k_sem_take(&sem_rem_source,
\* 2000 ms), then mod_src, its error only logged
RemoveSourceSink(ok) ==
  /\ ~halted
  /\ h.pc = "rs_mod" /\ h.i <= NumAddrs
  /\ IF Connected(h.i)
     THEN /\ sem_rem_source' = 0
          /\ bass' = IF BassAccepted(h.i, ok)
                     THEN [bass EXCEPT ![h.i] = "mod"] ELSE bass
          /\ mod_src_id' = IF BassAccepted(h.i, ok)
                           THEN [mod_src_id EXCEPT ![h.i] = h.arg]
                           ELSE mod_src_id
          /\ h' = [h EXCEPT !.i = @ + 1,
                            !.llfail = @ \/ ~BassAccepted(h.i, ok)]
     ELSE /\ h' = [h EXCEPT !.i = @ + 1]
          /\ UNCHANGED << sem_rem_source, bass, mod_src_id >>
  /\ UNCHANGED << txv, hbv, scanv, source_data_list, pav, conn, attempt,
                  attempt_scan, ba_source_id, rem_src_id, rs, pr, conn_ref, pa_create, ba_recv_state,
                  sem_add_source, vcs_conn, vcs_work, csis_conn, csis_work,
                  csis >>

\* broadcast_assistant_remove_source: return 0
RemoveSourceReturn ==
  /\ ~halted
  /\ h.pc = "rs_mod" /\ h.i > NumAddrs
  /\ Finish(0, h.llfail, << >>)
  /\ UNCHANGED << hbv, scanv, source_data_list, pav, connv, csis >>

(* ------------------- periodic advertising sync events ------------------ *)
\* pa_synced_cb: k_timer_stop, k_sem_give
PaSyncedCb ==
  /\ ~halted
  /\ ll_pa = "pending"
  /\ ll_pa' = "synced"
  /\ pa_timer' = FALSE
  /\ sem_pa_sync' = k_sem_give(sem_pa_sync)
  /\ UNCHANGED << h, txv, hbv, scanv, source_data_list, pa_sync, pa_overlap,
                  pa_sync_transfer, del_work, connv, csis >>

\* source_data_clr_pa_attempt_cd
source_data_clr_pa_attempt_cd(addr) ==
  [source_data_list EXCEPT !.data =
     [i \in 1..Len(@) |-> IF @[i].addr = addr
                          THEN [@[i] EXCEPT !.pa_attempt_cd = 0] ELSE @[i]]]

\* pa_recv_cb; the callbacks are registered for every sync of the host
\* stack, sync is the object the report is for (named by its advertiser) and
\* base_found what base_search finds in the report
PaRecvCb_AnySync(sync, base_found) ==
  /\ ~halted
  /\ ll_pa = "synced" /\ pa_sync # NoAddr
  /\ pr' = [sync |-> sync, base_found |-> base_found]
  /\ IF base_found
     THEN /\ source_data_list' = source_data_clr_pa_attempt_cd(sync)
          /\ Transmit(<< Evt("SOURCE_BASE_FOUND", 0) >>)
          /\ IF ~pa_sync_transfer THEN pa_sync_delete
             ELSE UNCHANGED << pa_timer, del_work >>
     ELSE UNCHANGED << source_data_list, txv, pa_timer, del_work >>
  /\ UNCHANGED << h, hbv, scanv, pa_sync, ll_pa, pa_overlap, pa_sync_transfer,
                  sem_pa_sync, conn, attempt, attempt_scan, bass, ba_source_id,
                  mod_src_id, rem_src_id, rs, conn_ref, pa_create, ba_recv_state, sem_add_source,
                  sem_rem_source, vcs_conn, vcs_work, csis_conn, csis_work,
                  csis >>

PaRecvCb(sync, base_found) ==
  /\ ~halted
  /\ ll_pa = "synced" /\ pa_sync # NoAddr
  /\ pr' = [sync |-> sync, base_found |-> base_found]
  /\ IF sync = pa_sync /\ base_found
     THEN /\ source_data_list' = source_data_clr_pa_attempt_cd(sync)
          /\ Transmit(<< Evt("SOURCE_BASE_FOUND", 0) >>)
          /\ IF ~pa_sync_transfer THEN pa_sync_delete
             ELSE UNCHANGED << pa_timer, del_work >>
     ELSE UNCHANGED << source_data_list, txv, pa_timer, del_work >>
  /\ UNCHANGED << h, hbv, scanv, pa_sync, ll_pa, pa_overlap, pa_sync_transfer,
                  sem_pa_sync, conn, attempt, attempt_scan, bass, ba_source_id,
                  mod_src_id, rem_src_id, rs, conn_ref, pa_create, ba_recv_state, sem_add_source,
                  sem_rem_source, vcs_conn, vcs_work, csis_conn, csis_work,
                  csis >>

\* pa_term_cb (the sync was lost): k_sem_give; pa_sync keeps its value
PaTermCb ==
  /\ ~halted
  /\ ll_pa = "synced"
  /\ ll_pa' = "none"
  /\ sem_pa_sync' = k_sem_give(sem_pa_sync)
  /\ UNCHANGED << h, txv, hbv, scanv, source_data_list, pa_sync, pa_overlap,
                  pa_sync_transfer, pa_timer, del_work, connv, csis >>

\* pa_biginfo_cb
PaBiginfoCb ==
  /\ ~halted
  /\ ll_pa = "synced"
  /\ Transmit(<< Evt("SOURCE_BIG_INFO", 0) >>)
  /\ UNCHANGED << h, hbv, scanv, source_data_list, pav, connv, csis >>

\* pa_sync_create_timer_handler: k_work_submit(&pa_sync_delete_work),
\* k_sem_give
PaSyncCreateTimer ==
  /\ ~halted
  /\ pa_timer
  /\ pa_timer' = FALSE
  /\ del_work' = TRUE
  /\ sem_pa_sync' = k_sem_give(sem_pa_sync)
  /\ UNCHANGED << h, txv, hbv, scanv, source_data_list, pa_sync, ll_pa,
                  pa_overlap, pa_sync_transfer, connv, csis >>

\* pa_sync_delete_work_handler; ok is the result of
\* bt_le_per_adv_sync_delete, term says that the host reports the end of a
\* sync it terminated or cancelled through pa_term_cb (k_sem_give); a sync
\* that had ended before has nothing left to report
PaSyncDeleteWork(ok, term) ==
  /\ ~halted
  /\ del_work
  /\ del_work' = FALSE
  /\ IF pa_sync # NoAddr /\ ok
     THEN /\ pa_sync' = NoAddr
          /\ ll_pa' = "none"
          /\ sem_pa_sync' = IF term /\ ll_pa # "none"
                            THEN k_sem_give(sem_pa_sync) ELSE sem_pa_sync
     ELSE UNCHANGED << pa_sync, ll_pa, sem_pa_sync >>
  /\ UNCHANGED << h, txv, hbv, scanv, source_data_list, pa_overlap,
                  pa_sync_transfer, pa_timer, connv, csis >>

(* ----------------------------- scan events ----------------------------- *)
\* what an advertising report is: a periodic non-connectable advertiser with
\* a broadcast id, a connectable one with BASS, a connectable one carrying
\* the RSI of the set, both of the latter, or none of these
AdvKinds == { "source", "sink", "member", "sink_member", "other" }

IsSourceAdv(k) == k = "source"
IsSinkAdv(k) == k \in { "sink", "sink_member" }
IsMemberAdv(k) == k \in { "member", "sink_member" }

InSeq(x, sq) == \E i \in 1..Len(sq) : sq[i] = x

\* source_data_add, for an address source_data_get did not find
source_data_add_NoBudget(addr) ==
  IF source_data_get(addr) = {} /\ Len(source_data_list.data) < MAX_NUMBER_OF_SOURCES
  THEN [source_data_list EXCEPT !.data =
          Append(@, [addr |-> addr, pa_attempt_cd |-> 0])]
  ELSE source_data_list

source_data_add(addr) ==
  IF source_data_get(addr) = {} /\ Len(source_data_list.data) < MAX_NUMBER_OF_SOURCES
  THEN [source_data_list EXCEPT !.data =
          Append(@, [addr |-> addr,
                     pa_attempt_cd |-> source_data_list.pa_attempt])]
  ELSE source_data_list

\* the countdown of addr in list l (0 without an entry)
AttemptCd(l, addr) ==
  IF \E i \in 1..Len(l.data) : l.data[i].addr = addr
  THEN l.data[CHOOSE i \in 1..Len(l.data) : l.data[i].addr = addr].pa_attempt_cd
  ELSE 0

DecAttemptCd_Keep(l, addr) == l

DecAttemptCd(l, addr) ==
  [l EXCEPT !.data = [i \in 1..Len(l.data) |->
     IF l.data[i].addr = addr
     THEN [l.data[i] EXCEPT !.pa_attempt_cd = @ - 1] ELSE l.data[i]]]

\* scan_for_csis_member returns true for the advertisement of a set member
\* that csis_member_is_discovered does not find in csis_members
scan_for_csis_member(a, kind) ==
  /\ HasBit(ba_scan_mode, BROADCAST_ASSISTANT_SCAN_CSIS)
  /\ IsMemberAdv(kind)
  /\ ~InSeq(a, csis.members)

\* csis_members[csis_members_cnt++] = addr stores without a test of the
\* index: with csis_members_cnt = CONFIG_BT_MAX_CONN the seven bytes land
\* behind the array
StoredOutside(a, kind) ==
  scan_for_csis_member(a, kind) /\ Len(csis.members) >= CONFIG_BT_MAX_CONN

\* csis_set_size as scan_recv_cb reads it after the store: a store behind
\* the array overwrites whatever the build placed there, the statics that
\* are declared next to csis_members included
csis_set_size_after(a, kind) ==
  IF StoredOutside(a, kind) THEN 0..MaxSetSize ELSE { csis.set_size }

\* scan_recv_cb with scan_for_source, scan_for_sink, scan_for_csis_member;
\* ok is the result of bt_le_per_adv_sync_create, ok_stop that of
\* bt_le_scan_stop
ScanRecvCb(a, kind, ok, ok_stop) ==
  \E size \in csis_set_size_after(a, kind) :
  LET src == HasBit(ba_scan_mode, BROADCAST_ASSISTANT_SCAN_SOURCE) /\ IsSourceAdv(kind)
      snk == HasBit(ba_scan_mode, BROADCAST_ASSISTANT_SCAN_SINK) /\ IsSinkAdv(kind)
      mem == scan_for_csis_member(a, kind)
      added == source_data_add(a)
      create == src /\ pa_sync = NoAddr /\ AttemptCd(added, a) > 0
      members == IF mem THEN Append(csis.members, a) ELSE csis.members
      all == mem /\ Len(members) = size
      mode == IF all THEN BitClear(ba_scan_mode, BROADCAST_ASSISTANT_SCAN_CSIS)
              ELSE ba_scan_mode
  IN /\ ~halted
     /\ ll_scan
     /\ source_data_list' =
          IF ~src THEN source_data_list
          ELSE IF create /\ CreateAccepted(a, ok) THEN DecAttemptCd(added, a)
          ELSE added
     /\ IF create THEN pa_sync_create(a, ok)
        ELSE UNCHANGED << pa_timer, pa_overlap, pa_sync, ll_pa >>
     /\ Transmit((IF src THEN << Evt("SOURCE_FOUND", 0) >> ELSE << >>)
                 \o (IF snk THEN << Evt("SINK_FOUND", 0) >> ELSE << >>)
                 \o (IF mem THEN << Evt("SET_MEMBER_FOUND", 0) >> ELSE << >>))
     /\ csis' = [csis EXCEPT !.members = members, !.set_size = size]
     /\ ba_scan_mode' = mode
     /\ ll_scan' = ~(all /\ mode = BROADCAST_ASSISTANT_SCAN_IDLE /\ ok_stop)
     /\ ss' = IF all THEN SsOff ELSE ss
     /\ attempt_scan' = IF all THEN 0 ELSE attempt_scan
     /\ UNCHANGED << h, hbv, pa_sync_transfer, del_work, sem_pa_sync, conn,
                     attempt, bass, bassv, ba_recv_state, sem_add_source,
                     sem_rem_source, vcs_conn, vcs_work, csis_conn, csis_work >>

\* scan_timeout_cb: the link layer ended the scan
ScanTimeoutCb ==
  /\ ~halted
  /\ ll_scan
  /\ ll_scan' = FALSE
  /\ ba_scan_mode' = BROADCAST_ASSISTANT_SCAN_IDLE
  /\ Transmit(<< Evt("STOP_SCAN", 0) >>)
  /\ ss' = SsOff
  /\ attempt_scan' = 0
  /\ UNCHANGED << h, hbv, source_data_list, pav, conn, attempt, bass, bassv,
                  ba_recv_state, sem_add_source, sem_rem_source, vcs_conn,
                  vcs_work, csis_conn, csis_work, csis >>

(* -------------------------- connection events -------------------------- *)
\* the outcome of the connect-sink attempt towards a, once it is known
Resolve(a, out) ==
  IF attempt.peer = a /\ attempt.outcome = "pending"
  THEN [attempt EXCEPT !.outcome = out] ELSE attempt

\* bt_conn_unref of the connection object to peer a, as the application's
\* callbacks call it: one reference less
bt_conn_unref(a) == [conn_ref EXCEPT ![a] = @ - 1]

\* connected_cb; err: the connection failed, ok_sec/ok_disc/ok_scan: results
\* of bt_conn_set_security, bt_conn_disconnect and bt_le_scan_start
ConnectedCb(a, err, ok_sec, ok_disc, ok_scan) ==
  /\ ~halted
  /\ conn[a] \in { "connecting", "cancelling" }
  /\ conn[a] = "cancelling" => err
  /\ IF ~err /\ ok_sec
     THEN /\ conn' = [conn EXCEPT ![a] = "securing"]
          /\ UNCHANGED << txv, scanv, attempt, conn_ref >>
     ELSE /\ conn' = [conn EXCEPT ![a] = IF err THEN "none"
                                         ELSE IF ok_disc THEN "closing"
                                         ELSE "linked"]
          /\ conn_ref' = bt_conn_unref(a)
          /\ Transmit(<< Evt("SINK_CONNECTED", LL_ERR) >>)
          /\ restart_scanning_if_needed(ok_scan)
          /\ attempt' = Resolve(a, IF err THEN "conn_failed" ELSE "secset_failed")
  /\ UNCHANGED << h, hbv, source_data_list, pav, attempt_scan, bass,
                  ba_source_id, mod_src_id, rem_src_id, rs, pr, pa_create,
                  ba_recv_state, sem_add_source, sem_rem_source, vcs_conn,
                  vcs_work, csis_conn, csis_work, csis >>

\* security_changed_cb; ok: pairing succeeded, ok_dsc/ok_disc/ok_scan:
\* results of bt_bap_broadcast_assistant_discover, bt_conn_disconnect and
\* bt_le_scan_start. err is overwritten by the result of
\* bt_conn_disconnect, so the scan is restarted only when that fails.
SecurityChangedCb(a, ok, ok_dsc, ok_disc, ok_scan) ==
  /\ ~halted
  /\ conn[a] = "securing"
  /\ IF ok /\ ok_dsc
     THEN /\ conn' = [conn EXCEPT ![a] = "discovering"]
          /\ UNCHANGED << scanv, attempt >>
     ELSE /\ conn' = [conn EXCEPT ![a] = IF ok_disc THEN "closing" ELSE "linked"]
          /\ IF ok_disc THEN UNCHANGED scanv
             ELSE restart_scanning_if_needed(ok_scan)
          /\ attempt' = Resolve(a, IF ok THEN "disc_start_failed" ELSE "sec_failed")
  /\ UNCHANGED << h, txv, hbv, source_data_list, pav, attempt_scan, bass, bassv,
                  ba_recv_state, sem_add_source, sem_rem_source, vcs_conn,
                  vcs_work, csis_conn, csis_work, csis >>

\* broadcast_assistant_discover_cb without its test of err: the event and
\* the further discoveries follow a failed discovery too
DiscoverCb_NoErrTest(a, ok, ok_disc, ok_scan) ==
  /\ ~halted
  /\ conn[a] = "discovering"
  /\ conn' = [conn EXCEPT ![a] = IF ok THEN "ready"
                              ELSE IF ok_disc THEN "closing" ELSE "linked"]
  /\ Transmit(<< Evt("SINK_CONNECTED", 0) >>)
  /\ vcs_conn' = IF vcs_conn = NoAddr THEN a ELSE vcs_conn
  /\ vcs_work' = (vcs_work \/ vcs_conn = NoAddr)
  /\ csis_conn' = IF csis_conn = NoAddr THEN a ELSE csis_conn
  /\ csis_work' = (csis_work \/ csis_conn = NoAddr)
  /\ attempt' = Resolve(a, IF ok THEN "disc_ok" ELSE "disc_failed")
  /\ restart_scanning_if_needed(ok_scan)
  /\ UNCHANGED << h, hbv, source_data_list, pav, attempt_scan, bass, bassv,
                  ba_recv_state, sem_add_source, sem_rem_source, csis >>

\* broadcast_assistant_discover_cb
DiscoverCb(a, ok, ok_disc, ok_scan) ==
  /\ ~halted
  /\ conn[a] = "discovering"
  /\ IF ok
     THEN /\ conn' = [conn EXCEPT ![a] = "ready"]
          /\ Transmit(<< Evt("SINK_CONNECTED", 0) >>)
          /\ vcs_conn' = IF vcs_conn = NoAddr THEN a ELSE vcs_conn
          /\ vcs_work' = (vcs_work \/ vcs_conn = NoAddr)
          /\ csis_conn' = IF csis_conn = NoAddr THEN a ELSE csis_conn
          /\ csis_work' = (csis_work \/ csis_conn = NoAddr)
          /\ attempt' = Resolve(a, "disc_ok")
     ELSE /\ conn' = [conn EXCEPT ![a] = IF ok_disc THEN "closing" ELSE "linked"]
          /\ attempt' = Resolve(a, "disc_failed")
          /\ UNCHANGED << txv, vcs_conn, vcs_work, csis_conn, csis_work >>
  /\ restart_scanning_if_needed(ok_scan)
  /\ UNCHANGED << h, hbv, source_data_list, pav, attempt_scan, bass, bassv,
                  ba_recv_state, sem_add_source, sem_rem_source, csis >>

\* disconnected_cb: the event and bt_conn_unref, nothing else
DisconnectedCb(a) ==
  /\ ~halted
  /\ conn[a] = "closing" \/ Connected(a)
  /\ conn' = [conn EXCEPT ![a] = "none"]
  /\ conn_ref' = bt_conn_unref(a)
  /\ bass' = [bass EXCEPT ![a] = "idle"]
  /\ Transmit(<< Evt("SINK_DISCONNECTED", 0) >>)
  /\ attempt' = Resolve(a, "dropped")
  /\ UNCHANGED << h, hbv, scanv, source_data_list, pav, attempt_scan,
                  ba_source_id, mod_src_id, rem_src_id, rs, pr, pa_create,
                  ba_recv_state, sem_add_source, sem_rem_source, vcs_conn,
                  vcs_work, csis_conn, csis_work, csis >>

\* vcs_discover_work_handler; ok is the result of bt_vcp_vol_ctlr_discover
VcsDiscoverWork(ok) ==
  /\ ~halted
  /\ vcs_work
  /\ vcs_work' = FALSE
  /\ vcs_conn' = IF ok THEN vcs_conn ELSE NoAddr
  /\ UNCHANGED << h, txv, hbv, scanv, source_data_list, pav, conn, attempt,
                  attempt_scan, bass, bassv, ba_recv_state, sem_add_source,
                  sem_rem_source, csis_conn, csis_work, csis >>

\* vcs_discover_cb
VcsDiscoverCb(ok) ==
  /\ ~halted
  /\ vcs_conn # NoAddr /\ ~vcs_work
  /\ vcs_conn' = NoAddr
  /\ IF ok /\ Connected(vcs_conn)
     THEN Transmit(<< Evt("VOLUME_CONTROL_FOUND", 0) >>)
     ELSE UNCHANGED txv
  /\ UNCHANGED << h, hbv, scanv, source_data_list, pav, conn, attempt,
                  attempt_scan, bass, bassv, ba_recv_state, sem_add_source,
                  sem_rem_source, vcs_work, csis_conn, csis_work, csis >>

\* csis_discover_work_handler; ok is the result of
\* bt_csip_set_coordinator_discover
CsisDiscoverWork(ok) ==
  /\ ~halted
  /\ csis_work
  /\ csis_work' = FALSE
  /\ csis_conn' = IF ok THEN csis_conn ELSE NoAddr
  /\ UNCHANGED << h, txv, hbv, scanv, source_data_list, pav, conn, attempt,
                  attempt_scan, bass, bassv, ba_recv_state, sem_add_source,
                  sem_rem_source, vcs_conn, vcs_work, csis >>

\* csip_discover_cb; found: err == 0 and set_count > 0
CsipDiscoverCb(found) ==
  /\ ~halted
  /\ csis_conn # NoAddr /\ ~csis_work
  /\ csis_conn' = NoAddr
  /\ IF found THEN Transmit(<< Evt("SET_IDENTIFIER_FOUND", 0) >>)
     ELSE UNCHANGED txv
  /\ UNCHANGED << h, hbv, scanv, source_data_list, pav, conn, attempt,
                  attempt_scan, bass, bassv, ba_recv_state, sem_add_source,
                  sem_rem_source, vcs_conn, vcs_work, csis_work, csis >>

(* ----------------------------- BASS events ----------------------------- *)
\* broadcast_assistant_add_src_cb: k_sem_give, EVT SOURCE_ADDED with err
AddSrcCb(a, err) ==
  /\ ~halted
  /\ bass[a] = "add"
  /\ bass' = [bass EXCEPT ![a] = "idle"]
  /\ sem_add_source' = k_sem_give(sem_add_source)
  /\ Transmit(<< Evt("SOURCE_ADDED", IF err THEN LL_ERR ELSE 0) >>)
  /\ UNCHANGED << h, hbv, scanv, source_data_list, pav, conn, attempt,
                  attempt_scan, bassv, ba_recv_state, sem_rem_source, vcs_conn,
                  vcs_work, csis_conn, csis_work, csis >>

\* broadcast_assistant_mod_src_cb: on success rem_src is issued for
\* ba_source_id (ok_rem: the stack takes it)
ModSrcCb(a, err, ok_rem) ==
  /\ ~halted
  /\ bass[a] = "mod"
  /\ bass' = [bass EXCEPT ![a] = IF ~err /\ ok_rem THEN "rem" ELSE "idle"]
  /\ rem_src_id' = IF err THEN rem_src_id
                   ELSE [rem_src_id EXCEPT ![a] = ba_source_id]
  /\ UNCHANGED << h, txv, hbv, scanv, source_data_list, pav, conn, attempt,
                  attempt_scan, ba_source_id, mod_src_id, rs, pr, conn_ref, pa_create, ba_recv_state,
                  sem_add_source, sem_rem_source,
                  vcs_conn, vcs_work, csis_conn, csis_work, csis >>

\* broadcast_assistant_rem_src_cb: k_sem_give
RemSrcCb(a) ==
  /\ ~halted
  /\ bass[a] = "rem"
  /\ bass' = [bass EXCEPT ![a] = "idle"]
  /\ sem_rem_source' = k_sem_give(sem_rem_source)
  /\ UNCHANGED << h, txv, hbv, scanv, source_data_list, pav, conn, attempt,
                  attempt_scan, bassv, ba_recv_state, sem_add_source, vcs_conn,
                  vcs_work, csis_conn, csis_work, csis >>

\* broadcast_assistant_recv_state_removed_cb
RecvStateRemovedCb(a) ==
  /\ ~halted
  /\ conn[a] = "ready"
  /\ Transmit(<< Evt("SOURCE_REMOVED", 0) >>)
  /\ UNCHANGED << h, hbv, scanv, source_data_list, pav, connv, csis >>

EncStates == { "NO_ENC", "BCODE_REQ", "DEC", "BAD_CODE" }
PaStates == { "NOT_SYNCED", "INFO_REQ", "SYNCED", "FAILED", "NO_PAST" }

\* the loop "BIG synced?" over subgroups i..n of state st against snapshot
\* old: [changed, synced]
RECURSIVE BisLoop(_, _, _, _, _)
BisLoop(st, old, i, changed, synced) ==
  IF i > st.num_subgroups THEN [changed |-> changed, synced |-> synced]
  ELSE IF st.bis_sync[i] = old.bis_sync[i]
       THEN BisLoop(st, old, i + 1, changed, synced)
  ELSE IF st.bis_sync[i] = BIG_SYNC_FAILED
       THEN [changed |-> TRUE, synced |-> FALSE]
  ELSE BisLoop(st, old, i + 1, TRUE, synced \/ st.bis_sync[i] # 0)

\* broadcast_assistant_recv_state_cb
RecvStateCb(a, st) ==
  LET old == ba_recv_state[a]
      enc_chg == st.encrypt_state # old.encrypt_state
      pa_chg == st.pa_sync_state # old.pa_sync_state
      enc_bad == enc_chg /\ st.encrypt_state \notin EncStates
      pa_bad == pa_chg /\ st.pa_sync_state \notin PaStates
      bis == BisLoop(st, old, 1, FALSE, FALSE)
      del == /\ ~enc_bad /\ pa_chg
             /\ st.pa_sync_state \in { "SYNCED", "NO_PAST" }
             /\ pa_sync_transfer
      evts == (IF enc_chg /\ ~enc_bad
               THEN << Evt("NEW_ENC_STATE_" \o st.encrypt_state, 0) >> ELSE << >>)
              \o (IF ~enc_bad /\ pa_chg /\ ~pa_bad
                  THEN << Evt("NEW_PA_STATE_" \o st.pa_sync_state, 0) >> ELSE << >>)
              \o (IF ~enc_bad /\ ~pa_bad /\ bis.changed
                  THEN << Evt(IF bis.synced THEN "BIS_SYNCED"
                              ELSE "BIS_NOT_SYNCED", 0) >> ELSE << >>)
  IN /\ ~halted
     /\ conn[a] = "ready"
     /\ Transmit(evts)
     /\ IF del THEN pa_sync_delete /\ pa_sync_transfer' = FALSE
        ELSE UNCHANGED << pa_timer, del_work, pa_sync_transfer >>
     /\ ba_recv_state' = IF enc_bad \/ pa_bad THEN ba_recv_state
                         ELSE [ba_recv_state EXCEPT ![a] = st]
     /\ rs' = [a |-> a, st |-> st]
     /\ UNCHANGED << h, hbv, scanv, source_data_list, pa_sync, ll_pa,
                     pa_overlap, sem_pa_sync, conn, attempt, attempt_scan, bass,
                     ba_source_id, mod_src_id, rem_src_id, pr, conn_ref, pa_create,
                     sem_add_source, sem_rem_source, vcs_conn, vcs_work,
                     csis_conn, csis_work, csis >>

(* ------------------------- the web application ------------------------ *)
\* arrayToMsg: throws for fewer than 5 bytes and for a payload size that is
\* not the length of the rest; data[3] + (data[4] << 8) with indices from 0
arrayToMsg(data) ==
  IF Len(data) < 5 THEN [ok |-> FALSE]
  ELSE LET payloadSize == data[4] + data[5] * 256
       IN IF Len(data) # payloadSize + 5 THEN [ok |-> FALSE]
          ELSE [ok |-> TRUE, type |-> data[1], subType |-> data[2],
                seqNo |-> data[3], payloadSize |-> payloadSize,
                payload |-> SubSeq(data, 6, Len(data))]

\* msgToArray of a message without a payloadSize field: an exception for a
\* type or a subType that is not a value of the enums, a seqNo that is not
\* an integer of 0..255 becomes 0, the header is a Uint8Array (every element
\* modulo 256) of type, subType, seqNo, payloadSize & 0xff, payloadSize >> 8
MessageSubType == (1..8) \cup { 42 } \cup (129..143) \cup { 255 }

msgToArray_LowSize(msg) ==
  IF msg.type \notin MessageTypes \/ msg.subType \notin MessageSubType
  THEN [ok |-> FALSE, data |-> << >>]
  ELSE LET seqNo == IF msg.seqNo \in 0..255 THEN msg.seqNo ELSE 0
           payloadSize == Len(msg.payload)
           header == << msg.type % 256, msg.subType % 256, seqNo,
                        payloadSize % 256, 0 >>
       IN [ok |-> TRUE, data |-> header \o msg.payload]

msgToArray(msg) ==
  IF msg.type \notin MessageTypes \/ msg.subType \notin MessageSubType
  THEN [ok |-> FALSE, data |-> << >>]
  ELSE LET seqNo == IF msg.seqNo \in 0..255 THEN msg.seqNo ELSE 0
           payloadSize == Len(msg.payload)
           header == << msg.type % 256, msg.subType % 256, seqNo,
                        payloadSize % 256, (payloadSize \div 256) % 256 >>
       IN [ok |-> TRUE, data |-> header \o msg.payload]

\* _openDevice: open, claimInterface, the connected event, readLoop()
HostOpenDevice ==
  /\ ~host.reading
  /\ host' = [host EXCEPT !.reading = TRUE]
  /\ UNCHANGED << h, tx_queue, tx_pool, halted, null_write, rx, hbv, scanv,
                  source_data_list, pav, connv, csis >>

\* readLoop, the fulfilment handler of transferIn for a transfer that is not
\* empty and that cobsDecode turns into data: arrayToMsg(decoded), the
\* message event, this.readLoop(). An exception of arrayToMsg leaves the
\* handler before readLoop() is called again; the rejection handler is for
\* transferIn only.
HostTransferIn(data) ==
  /\ host.reading
  /\ host.n < MaxTransfers
  /\ LET message == arrayToMsg(data)
     IN host' = [reading |-> message.ok, n |-> host.n + 1, data |-> data,
                 msgs |-> IF message.ok THEN host.msgs + 1 ELSE host.msgs,
                 js |-> host.js]
  /\ UNCHANGED << h, tx_queue, tx_pool, halted, null_write, rx, hbv, scanv,
                  source_data_list, pav, connv, csis >>

\* readLoop, the rejection handler of transferIn: the error is logged
HostTransferError ==
  /\ host.reading
  /\ host' = [host EXCEPT !.reading = FALSE]
  /\ UNCHANGED << h, tx_queue, tx_pool, halted, null_write, rx, hbv, scanv,
                  source_data_list, pav, connv, csis >>

(* ------------------- the web application's library ------------------- *)
\* cobsEncode: res starts as [0], res_ptr is the place of the code byte of
\* the block being filled (an index from 1 here), blockDone writes the code
\* and opens the next block unless it is the last one without zeropad; a
\* block is closed at every zero of the data and when count reaches 255.
\* The bytes are visited in order, first to last; the loop is unfolded by
\* halves, the first half evaluated before the second (count is never 0).
cobsEncode_PadAlways(data, zeropad) ==
  LET blockDone(s, last) ==
        LET r == [s.res EXCEPT ![s.res_ptr] = s.count]
        IN [res |-> Append(r, 0), res_ptr |-> Len(r) + 1, count |-> 1]
      byte(s, i) ==
        IF data[i] = 0 THEN blockDone(s, FALSE)
        ELSE LET t == [s EXCEPT !.res = Append(@, data[i]), !.count = @ + 1]
             IN IF t.count = 255 THEN blockDone(t, FALSE) ELSE t
      RECURSIVE loop(_, _, _)
      loop(s, lo, hi) ==
        IF lo > hi THEN s
        ELSE IF lo = hi THEN byte(s, lo)
        ELSE LET m == loop(s, lo, (lo + hi) \div 2)
             IN IF m.count > 0 THEN loop(m, (lo + hi) \div 2 + 1, hi) ELSE m
      res == blockDone(loop([res |-> << 0 >>, res_ptr |-> 1, count |-> 1],
                            1, Len(data)), TRUE).res
  IN [k \in 1..Len(res) |-> res[k] % 256]

cobsEncode(data, zeropad) ==
  LET blockDone(s, last) ==
        LET r == [s.res EXCEPT ![s.res_ptr] = s.count]
        IN [res |-> IF ~last \/ zeropad THEN Append(r, 0) ELSE r,
            res_ptr |-> Len(r) + 1, count |-> 1]
      byte(s, i) ==
        IF data[i] = 0 THEN blockDone(s, FALSE)
        ELSE LET t == [s EXCEPT !.res = Append(@, data[i]), !.count = @ + 1]
             IN IF t.count = 255 THEN blockDone(t, FALSE) ELSE t
      RECURSIVE loop(_, _, _)
      loop(s, lo, hi) ==
        IF lo > hi THEN s
        ELSE IF lo = hi THEN byte(s, lo)
        ELSE LET m == loop(s, lo, (lo + hi) \div 2)
             IN IF m.count > 0 THEN loop(m, (lo + hi) \div 2 + 1, hi) ELSE m
      res == blockDone(loop([res |-> << 0 >>, res_ptr |-> 1, count |-> 1],
                            1, Len(data)), TRUE).res
  IN [k \in 1..Len(res) |-> res[k] % 256]

\* cobsDecode: with zeropad the last byte is left out (subarray(0, -1));
\* tmpVal counts the data bytes left in the block, a code byte appends the
\* zero that ended the block before it unless that block had code 255
\* (count starts as 255), a code byte of 0 ends the loop. The bytes are
\* visited in order, first to last; the loop is unfolded by halves.
cobsDecode_NoZero(data, zeropad) ==
  LET src == IF zeropad THEN SubSeq(data, 1, Len(data) - 1) ELSE data
      byte(s, i) ==
        IF s.tmpVal # 0
          THEN [s EXCEPT !.res = Append(@, src[i]), !.tmpVal = @ - 1]
        ELSE [res |-> s.res, count |-> src[i], tmpVal |-> src[i] - 1,
              break |-> src[i] = 0]
      RECURSIVE loop(_, _, _)
      loop(s, lo, hi) ==
        IF lo > hi THEN s
        ELSE IF lo = hi THEN byte(s, lo)
        ELSE LET m == loop(s, lo, (lo + hi) \div 2)
             IN IF m.break THEN m ELSE loop(m, (lo + hi) \div 2 + 1, hi)
  IN loop([res |-> << >>, count |-> 255, tmpVal |-> 0, break |-> FALSE],
          1, Len(src)).res

cobsDecode(data, zeropad) ==
  LET src == IF zeropad THEN SubSeq(data, 1, Len(data) - 1) ELSE data
      byte(s, i) ==
        IF s.tmpVal # 0
          THEN [s EXCEPT !.res = Append(@, src[i]), !.tmpVal = @ - 1]
        ELSE [res |-> IF s.count # 255 THEN Append(s.res, 0) ELSE s.res,
              count |-> src[i], tmpVal |-> src[i] - 1, break |-> src[i] = 0]
      RECURSIVE loop(_, _, _)
      loop(s, lo, hi) ==
        IF lo > hi THEN s
        ELSE IF lo = hi THEN byte(s, lo)
        ELSE LET m == loop(s, lo, (lo + hi) \div 2)
             IN IF m.break THEN m ELSE loop(m, (lo + hi) \div 2 + 1, hi)
  IN loop([res |-> << >>, count |-> 255, tmpVal |-> 0, break |-> FALSE],
          1, Len(src)).res

\* The bitwise operators of the language work on 32-bit signed integers:
\* a << n shifts by n modulo 32 and wraps, a & b is the bitwise and of the
\* two's-complement patterns. (a is not negative where << is used.)
MinInt32 == 0 - 2147483647 - 1

JsShl(a, n) ==
  LET k == n % 32
  IN IF k = 0 THEN a
     ELSE LET hi == 2 ^ (31 - k)
          IN (IF k = 31 THEN 0 ELSE (a % hi) * (2 ^ k))
             + (IF (a \div hi) % 2 = 1 THEN MinInt32 ELSE 0)

JsAnd(a, b) ==
  LET low(v) == IF v < 0 THEN v - MinInt32 ELSE v
      bit(v, i) == (low(v) \div (2 ^ i)) % 2
      RECURSIVE sum(_)
      sum(i) == IF i < 0 THEN 0
                ELSE bit(a, i) * bit(b, i) * (2 ^ i) + sum(i - 1)
  IN sum(30) + (IF a < 0 /\ b < 0 THEN MinInt32 ELSE 0)

\* bufToInt: an exception unless the array has 1 to 4 bytes; item is the sum
\* of data[count] << (8*count); when signed, neg = item & (1 << (width - 1)),
\* tmp = 1 << width, and the result is -tmp + (item & (tmp - 1)) if neg is
\* not 0
bufToInt(data, signed) ==
  IF Len(data) < 1 \/ Len(data) > 4 THEN [ok |-> FALSE, val |-> 0]
  ELSE LET width == Len(data) * 8
           RECURSIVE while(_)
           while(count) == IF count < Len(data)
                           THEN JsShl(data[count + 1], 8 * count) + while(count + 1)
                           ELSE 0
           item == while(0)
           neg == JsAnd(item, JsShl(1, width - 1))
           tmp == JsShl(1, width)
           min == 0 - tmp
       IN [ok |-> TRUE,
           val |-> IF signed /\ neg # 0 THEN min + JsAnd(item, tmp - 1)
                   ELSE item]

\* parseLTVItem hands the value of an RSSI or error-code record to
\* bufToInt(value, true)
JsBufToInt(data, signed) ==
  /\ host.js.fn = ""
  /\ host' = [host EXCEPT !.js = [fn |-> "bufToInt", signed |-> signed,
                                  x |-> data, ret |-> bufToInt(data, signed)]]
  /\ UNCHANGED << h, tx_queue, tx_pool, halted, null_write, rx, hbv, scanv,
                  source_data_list, pav, connv, csis >>

\* parseLTVItem: nothing for len 0 or a value of another length; the value
\* of an RSSI or error-code record is bufToInt(value, true), of a broadcast
\* id, PA interval or SID record bufToInt(value, false) (their exception
\* leaves ltvToTvArray too); the value of every other record is kept here as
\* its bytes
parseLTVItem(type, len, value) ==
  IF len = 0 \/ len # Len(value) THEN [item |-> FALSE, throw |-> FALSE]
  ELSE IF type \in { 254, 251, 250, 252, 253 }
    THEN LET v == bufToInt(value, type \in { 254, 251 })
         IN [item |-> v.ok, throw |-> ~v.ok, type |-> type, value |-> v.val]
  ELSE [item |-> TRUE, throw |-> FALSE, type |-> type, value |-> value]

\* ltvToTvArray: len = payload[ptr++] - 1, type = payload[ptr++] (undefined,
\* here -1, past the end), the loop is left when ptr + len is past the end,
\* value = payload.subarray(ptr, ptr + len), ptr += len, the item of
\* parseLTVItem is pushed if there is one. ptr is an index from 0.
ltvToTvArray(payload) ==
  LET at(i) == IF i < Len(payload) THEN payload[i + 1] ELSE 0 - 1
      RECURSIVE while(_, _)
      while(ptr, res) ==
        IF ptr >= Len(payload) THEN [ok |-> TRUE, res |-> res]
        ELSE LET len == at(ptr) - 1
                 type == at(ptr + 1)
                 p == ptr + 2
             IN IF p + len > Len(payload) THEN [ok |-> TRUE, res |-> res]
                ELSE LET value == SubSeq(payload, p + 1, p + len)
                         it == parseLTVItem(type, len, value)
                     IN IF it.throw THEN [ok |-> FALSE, res |-> res]
                        ELSE while(p + len,
                                   IF it.item
                                   THEN Append(res, [type |-> it.type,
                                                     value |-> it.value])
                                   ELSE res)
  IN while(0, << >>)

\* the handlers of the assistant model: payloadArray =
\* ltvToTvArray(message.payload)
JsLtvToTvArray(payload) ==
  /\ host.js.fn = ""
  /\ host' = [host EXCEPT !.js = [fn |-> "ltvToTvArray", x |-> payload,
                                  ret |-> ltvToTvArray(payload)]]
  /\ UNCHANGED << h, tx_queue, tx_pool, halted, null_write, rx, hbv, scanv,
                  source_data_list, pav, connv, csis >>

\* the library test page: encoded = cobsEncode(payload, zeropad), then
\* decoded = cobsDecode(encoded, zeropad)
JsCobsEncode(payload, zeropad) ==
  /\ host.js.fn = ""
  /\ host' = [host EXCEPT !.js = [fn |-> "cobsEncode", zeropad |-> zeropad,
                                  x |-> payload,
                                  ret |-> cobsEncode(payload, zeropad)]]
  /\ UNCHANGED << h, tx_queue, tx_pool, halted, null_write, rx, hbv, scanv,
                  source_data_list, pav, connv, csis >>

JsCobsDecode ==
  /\ host.js.fn = "cobsEncode"
  /\ host' = [host EXCEPT !.js.fn = "cobsDecode",
                          !.js.ret = cobsDecode(host.js.ret, host.js.zeropad)]
  /\ UNCHANGED << h, tx_queue, tx_pool, halted, null_write, rx, hbv, scanv,
                  source_data_list, pav, connv, csis >>

\* sendCMD: arrayIn = msgToArray(message); the other end of the link reads it
\* back with arrayToMsg
JsMsgToArray(msg) ==
  /\ host.js.fn = ""
  /\ host' = [host EXCEPT !.js = [fn |-> "msgToArray", zeropad |-> FALSE,
                                  x |-> msg, ret |-> msgToArray(msg)]]
  /\ UNCHANGED << h, tx_queue, tx_pool, halted, null_write, rx, hbv, scanv,
                  source_data_list, pav, connv, csis >>

JsArrayToMsg ==
  /\ host.js.fn = "msgToArray"
  /\ host.js.ret.ok
  /\ host' = [host EXCEPT !.js.fn = "arrayToMsg",
                          !.js.ret = arrayToMsg(host.js.ret.data)]
  /\ UNCHANGED << h, tx_queue, tx_pool, halted, null_write, rx, hbv, scanv,
                  source_data_list, pav, connv, csis >>

(* --------------------------- specifications ---------------------------- *)
SeqNos == 0..MaxSeqNo

\* The dispatcher with the commands that end in one step, the transmit
\* queue, the heartbeat and a sink advertising while the scan runs.
MsgSubTypes == { "HEARTBEAT", "START_SINK_SCAN", "STOP_SCAN", UNKNOWN_SUBTYPE }

MsgFrames ==
  { InFrame(t, s, n, NoAddr, 0) : t \in MessageTypes, s \in MsgSubTypes,
                                  n \in SeqNos }

NextMsg ==
  \/ \E f \in MsgFrames : RxWork(f)
  \/ CmdHeartbeat
  \/ \E ok \in BOOLEAN : CmdStartScan(ok)
  \/ \E ok \in BOOLEAN : CmdStopScan(ok)
  \/ CmdUnknown
  \/ Return
  \/ TxWork
  \/ HeartbeatTick
  \/ \E a \in Addrs, ok, ok_stop \in BOOLEAN : ScanRecvCb(a, "sink", ok, ok_stop)
  \/ ScanTimeoutCb

SpecMsg == Init /\ [][NextMsg]_vars

\* Scanning and connecting: the start/stop-scan, connect-sink and
\* disconnect-sink commands, the scanner and the connection callbacks.
ScanPeers == { 1 }

ScanFrames ==
  { InFrame(MESSAGE_TYPE_CMD, s, 0, NoAddr, 0) :
      s \in { "START_SINK_SCAN", "START_SOURCE_SCAN", "STOP_SCAN" } }
  \cup { InFrame(MESSAGE_TYPE_CMD, "CONNECT_SINK", 0, a, 0) : a \in ScanPeers }

NextScan ==
  \/ \E f \in ScanFrames : RxWork(f)
  \/ \E ok \in BOOLEAN : CmdStartScan(ok)
  \/ \E ok \in BOOLEAN : CmdStopScan(ok)
  \/ \E ok \in BOOLEAN : CmdConnectSink(ok)
  \/ \E ok, ok_scan \in BOOLEAN : CmdConnectSinkCreate(ok, ok_scan)
  \/ Return
  \/ TxWork
  \/ ScanTimeoutCb
  \/ \E a \in ScanPeers, err, ok_sec, ok_disc, ok_scan \in BOOLEAN :
        ConnectedCb(a, err, ok_sec, ok_disc, ok_scan)
  \/ \E a \in ScanPeers, ok, ok_dsc, ok_disc, ok_scan \in BOOLEAN :
        SecurityChangedCb(a, ok, ok_dsc, ok_disc, ok_scan)
  \/ \E a \in ScanPeers, ok, ok_disc, ok_scan \in BOOLEAN :
        DiscoverCb(a, ok, ok_disc, ok_scan)
  \/ \E a \in ScanPeers : DisconnectedCb(a)

SpecScan == Init /\ [][NextScan]_vars

\* Sink connections: the connect-sink and disconnect-sink commands and the
\* connection callbacks.
SinkFrames ==
  { InFrame(MESSAGE_TYPE_CMD, s, 0, a, 0) :
      s \in { "CONNECT_SINK", "DISCONNECT_SINK" }, a \in ScanPeers }

NextSink ==
  \/ \E f \in SinkFrames : RxWork(f)
  \/ \E ok \in BOOLEAN : CmdConnectSink(ok)
  \/ \E ok, ok_scan \in BOOLEAN : CmdConnectSinkCreate(ok, ok_scan)
  \/ \E ok \in BOOLEAN : CmdDisconnectSink(ok)
  \/ Return
  \/ TxWork
  \/ \E a \in ScanPeers, err, ok_sec, ok_disc, ok_scan \in BOOLEAN :
        ConnectedCb(a, err, ok_sec, ok_disc, ok_scan)
  \/ \E a \in ScanPeers, ok, ok_dsc, ok_disc, ok_scan \in BOOLEAN :
        SecurityChangedCb(a, ok, ok_dsc, ok_disc, ok_scan)
  \/ \E a \in ScanPeers, ok, ok_disc, ok_scan \in BOOLEAN :
        DiscoverCb(a, ok, ok_disc, ok_scan)
  \/ \E a \in ScanPeers : DisconnectedCb(a)
  \/ \E ok \in BOOLEAN : VcsDiscoverWork(ok)
  \/ \E ok \in BOOLEAN : VcsDiscoverCb(ok)
  \/ \E ok \in BOOLEAN : CsisDiscoverWork(ok)
  \/ \E ok \in BOOLEAN : CsipDiscoverCb(ok)

SpecSink == Init /\ [][NextSink]_vars

\* Periodic-advertising sync: source scans, the PA_SYNC and add-source
\* commands (for either source), one advertiser, the PA callbacks, the
\* create timer and the delete work.
PaFrames ==
  { InFrame(MESSAGE_TYPE_CMD, "START_SOURCE_SCAN", 0, NoAddr, x) :
      x \in 0..MaxPaAttempt }
  \cup { InFrame(MESSAGE_TYPE_CMD, s, 0, a, 0) :
            s \in { "PA_SYNC", "ADD_SOURCE" }, a \in Addrs }

NextPa ==
  \/ \E f \in PaFrames : RxWork(f)
  \/ \E ok \in BOOLEAN : CmdStartScan(ok)
  \/ CmdPaSync
  \/ \E ok \in BOOLEAN : PaSyncCmdCreate(ok)
  \/ CmdAddSource
  \/ AddSourceWaitStopped
  \/ AddSourceCheck
  \/ \E ok \in BOOLEAN : AddSourceCreate(ok)
  \/ AddSourceWaitSynced
  \/ \E ok \in BOOLEAN : AddSourceSink(ok)
  \/ AddSourceReturn
  \/ Return
  \/ TxWork
  \/ \E a \in ScanPeers, ok, ok_stop \in BOOLEAN :
        ScanRecvCb(a, "source", ok, ok_stop)
  \/ PaSyncedCb
  \/ PaTermCb
  \/ PaSyncCreateTimer
  \/ \E ok \in BOOLEAN : PaSyncDeleteWork(ok, TRUE)

SpecPa == Init /\ [][NextPa]_vars

\* Add-source with BIS-sync values: a source scan, add-source commands that
\* carry 0..MaxBisValues values, one advertiser, the PA callbacks, the create
\* timer and the delete work.
BisSeqs ==
  UNION { [1..n -> 1..MaxBisSync] : n \in 0..MaxBisValues }

BisFrames ==
  { InFrame(MESSAGE_TYPE_CMD, "START_SOURCE_SCAN", 0, NoAddr, 0) }
  \cup { BisFrame("ADD_SOURCE", a, v) : a \in ScanPeers, v \in BisSeqs }

NextBis ==
  \/ \E f \in BisFrames : RxWork(f)
  \/ \E ok \in BOOLEAN : CmdStartScan(ok)
  \/ CmdAddSource
  \/ AddSourceWaitStopped
  \/ AddSourceCheck
  \/ \E ok \in BOOLEAN : AddSourceCreate(ok)
  \/ AddSourceWaitSynced
  \/ \E ok \in BOOLEAN : AddSourceSink(ok)
  \/ AddSourceReturn
  \/ Return
  \/ TxWork
  \/ \E a \in ScanPeers, ok, ok_stop \in BOOLEAN :
        ScanRecvCb(a, "source", ok, ok_stop)
  \/ PaSyncedCb
  \/ PaTermCb
  \/ PaSyncCreateTimer
  \/ \E ok \in BOOLEAN : PaSyncDeleteWork(ok, TRUE)

SpecBis == Init /\ [][NextBis]_vars

\* Stopping a scan: source scans, the stop-scan and PA_SYNC commands, one
\* advertiser, the scan timeout, the PA callbacks, the create timer and the
\* delete work.
StopFrames ==
  { InFrame(MESSAGE_TYPE_CMD, "START_SOURCE_SCAN", 0, NoAddr, x) :
      x \in 0..MaxPaAttempt }
  \cup { InFrame(MESSAGE_TYPE_CMD, "STOP_SCAN", 0, NoAddr, 0) }
  \cup { InFrame(MESSAGE_TYPE_CMD, "PA_SYNC", 0, a, 0) : a \in Addrs }

NextStop ==
  \/ \E f \in StopFrames : RxWork(f)
  \/ \E ok \in BOOLEAN : CmdStartScan(ok)
  \/ \E ok \in BOOLEAN : CmdStopScan(ok)
  \/ CmdPaSync
  \/ \E ok \in BOOLEAN : PaSyncCmdCreate(ok)
  \/ Return
  \/ TxWork
  \/ \E a \in ScanPeers, ok, ok_stop \in BOOLEAN :
        ScanRecvCb(a, "source", ok, ok_stop)
  \/ ScanTimeoutCb
  \/ PaSyncedCb
  \/ PaTermCb
  \/ PaSyncCreateTimer
  \/ \E ok \in BOOLEAN : PaSyncDeleteWork(ok, TRUE)

SpecStop == Init /\ [][NextStop]_vars

\* Removing a source: one sink is connected and set up, remove-source
\* commands for either source id, the BASS modify and remove completions.
SrcIds == 1..MaxSrcId

RemFrames ==
  { InFrame(MESSAGE_TYPE_CMD, "CONNECT_SINK", 0, a, 0) : a \in ScanPeers }
  \cup { InFrame(MESSAGE_TYPE_CMD, "REMOVE_SOURCE", 0, NoAddr, x) : x \in SrcIds }

NextRem ==
  \/ \E f \in RemFrames : RxWork(f)
  \/ \E ok \in BOOLEAN : CmdConnectSink(ok)
  \/ \E ok, ok_scan \in BOOLEAN : CmdConnectSinkCreate(ok, ok_scan)
  \/ CmdRemoveSource
  \/ \E ok \in BOOLEAN : RemoveSourceSink(ok)
  \/ RemoveSourceReturn
  \/ Return
  \/ TxWork
  \/ \E a \in ScanPeers, err, ok_sec, ok_disc, ok_scan \in BOOLEAN :
        ConnectedCb(a, err, ok_sec, ok_disc, ok_scan)
  \/ \E a \in ScanPeers, ok, ok_dsc, ok_disc, ok_scan \in BOOLEAN :
        SecurityChangedCb(a, ok, ok_dsc, ok_disc, ok_scan)
  \/ \E a \in ScanPeers, ok, ok_disc, ok_scan \in BOOLEAN :
        DiscoverCb(a, ok, ok_disc, ok_scan)
  \/ \E a \in ScanPeers : DisconnectedCb(a)
  \/ \E a \in ScanPeers, err, ok_rem \in BOOLEAN : ModSrcCb(a, err, ok_rem)
  \/ \E a \in ScanPeers : RemSrcCb(a)

SpecRem == Init /\ [][NextRem]_vars

\* Receive-state notifications: one sink that connects and disconnects, and
\* the receive states its scan delegator reports, among them encryption and
\* PA-sync states outside the enumerations.
RecvEncStates == { "NO_ENC", "DEC" }
RecvPaStates == { "SYNCED", "INVALID" }
RecvBisSync ==
  { << 0, 0 >>, << 1, 1 >>, << 1, BIG_SYNC_FAILED >>, << BIG_SYNC_FAILED, 1 >> }

RecvStates ==
  [encrypt_state : RecvEncStates, pa_sync_state : RecvPaStates,
   num_subgroups : { MaxSubgroups },
   bis_sync : RecvBisSync]

RecvFrames ==
  { InFrame(MESSAGE_TYPE_CMD, "CONNECT_SINK", 0, a, 0) : a \in ScanPeers }

NextRecv ==
  \/ \E f \in RecvFrames : RxWork(f)
  \/ \E ok \in BOOLEAN : CmdConnectSink(ok)
  \/ \E ok, ok_scan \in BOOLEAN : CmdConnectSinkCreate(ok, ok_scan)
  \/ Return
  \/ TxWork
  \/ \E a \in ScanPeers, err, ok_sec, ok_disc, ok_scan \in BOOLEAN :
        ConnectedCb(a, err, ok_sec, ok_disc, ok_scan)
  \/ \E a \in ScanPeers, ok, ok_dsc, ok_disc, ok_scan \in BOOLEAN :
        SecurityChangedCb(a, ok, ok_dsc, ok_disc, ok_scan)
  \/ \E a \in ScanPeers, ok, ok_disc, ok_scan \in BOOLEAN :
        DiscoverCb(a, ok, ok_disc, ok_scan)
  \/ \E a \in ScanPeers : DisconnectedCb(a)
  \/ \E a \in ScanPeers, st \in RecvStates : RecvStateCb(a, st)

SpecRecv == Init /\ [][NextRecv]_vars

\* Heartbeat: sequences of heartbeat and reset commands, and the timer.
HbFrames ==
  { InFrame(MESSAGE_TYPE_CMD, s, n, NoAddr, 0) :
      s \in { "HEARTBEAT", "RESET" }, n \in SeqNos }

NextHb ==
  \/ \E f \in HbFrames : RxWork(f)
  \/ CmdHeartbeat
  \/ \E ok \in BOOLEAN, D \in SUBSET Addrs : CmdReset(ok, D)
  \/ HeartbeatTick
  \/ Return
  \/ TxWork

SpecHb == Init /\ [][NextHb]_vars

\* The web application's read loop: opening the device, transfers that
\* decode to any array of 0..MaxHostLen bytes, and failed transfers.
HostArrays ==
  UNION { [1..n -> 0..MaxHostByte] : n \in 0..MaxHostLen }

NextHost ==
  \/ HostOpenDevice
  \/ \E data \in HostArrays : HostTransferIn(data)
  \/ HostTransferError

SpecHost == Init /\ [][NextHost]_vars

\* The source-scan cycle: start-source-scan commands with every budget, two
\* advertisers, the synced and terminated callbacks, the create timer and the
\* delete work.
NextCycle ==
  \/ \E x \in 0..MaxPaAttempt :
        RxWork(InFrame(MESSAGE_TYPE_CMD, "START_SOURCE_SCAN", 0, NoAddr, x))
  \/ \E ok \in BOOLEAN : CmdStartScan(ok)
  \/ Return
  \/ TxWork
  \/ \E a \in { 1, 2 }, ok, ok_stop \in BOOLEAN :
        ScanRecvCb(a, "source", ok, ok_stop)
  \/ PaSyncedCb
  \/ PaTermCb
  \/ PaSyncCreateTimer
  \/ \E ok \in BOOLEAN : PaSyncDeleteWork(ok, TRUE)

SpecCycle == Init /\ [][NextCycle]_vars

\* Reports of a periodic sync: a source scan with a budget of one attempt,
\* add-source commands for one advertiser, syncs that are established,
\* reports for the sync of either of two advertisers, and the delete work.
NextBase ==
  \/ RxWork(InFrame(MESSAGE_TYPE_CMD, "START_SOURCE_SCAN", 0, NoAddr, 1))
  \/ \E a \in ScanPeers : RxWork(InFrame(MESSAGE_TYPE_CMD, "ADD_SOURCE", 0, a, 0))
  \/ \E ok \in BOOLEAN : CmdStartScan(ok)
  \/ CmdAddSource
  \/ AddSourceWaitStopped
  \/ AddSourceCheck
  \/ \E ok \in BOOLEAN : AddSourceCreate(ok)
  \/ AddSourceWaitSynced
  \/ \E ok \in BOOLEAN : AddSourceSink(ok)
  \/ AddSourceReturn
  \/ Return
  \/ TxWork
  \/ \E a \in ScanPeers, ok, ok_stop \in BOOLEAN :
        ScanRecvCb(a, "source", ok, ok_stop)
  \/ PaSyncedCb
  \/ \E sync \in { 1, 2 }, base_found \in BOOLEAN :
        PaRecvCb(sync, base_found)
  \/ \E ok \in BOOLEAN : PaSyncDeleteWork(ok, TRUE)

SpecBase == Init /\ [][NextBase]_vars

\* Transfers as they arrive: heartbeat frames that are well formed, cut
\* short or carry a wrong length field.
NextRaw ==
  \/ \E n \in SeqNos, wf \in { "ok", "short", "mismatch" } :
        RxWork(RawFrame(InFrame(MESSAGE_TYPE_CMD, "HEARTBEAT", n, NoAddr, 0), wf))
  \/ CmdHeartbeat
  \/ HeartbeatTick
  \/ Return
  \/ TxWork

SpecRaw == Init /\ [][NextRaw]_vars

\* The payloads of the library test page: up to MaxRuns runs, each a zero,
\* one non-zero byte, or a run of non-zero bytes around the 254 bytes that
\* fill a block.
CobsRuns == { << 0, 1 >>, << 1, 1 >>, << 255, 1 >>, << 1, 253 >>,
              << 255, 254 >>, << 1, 255 >> }
CobsPayloads ==
  LET Run(c) == [k \in 1..c[2] |-> c[1]]
      RECURSIVE Flat(_)
      Flat(q) == IF q = << >> THEN << >> ELSE Run(Head(q)) \o Flat(Tail(q))
  IN { Flat(q) : q \in UNION { [1..n -> CobsRuns] : n \in 0..MaxRuns } }

\* Messages handed to msgToArray: types and subtypes in and out of the
\* enums, sequence numbers in and out of a byte, payloads from none to the
\* most a 2-byte size can say.
JsMessages ==
  [type : 0..4, subType : { 0, 1, 9, 42, 143, 144, 255 },
   seqNo : { 0, 255, 256 },
   payload : { [k \in 1..n |-> k % 256] : n \in { 0, 1, 255, 256, MaxPayloadSize } }]

\* Byte strings handed to bufToInt: every string of 1 to 4 of these bytes,
\* and one that is too short and one that is too long.
IntBytes == { 0, 1, 127, 128, 196, 254, 255 }
IntStrings ==
  UNION { [1..n -> IntBytes] : n \in 1..4 } \cup { << >>, << 1, 2, 3, 4, 5 >> }

\* Payloads handed to ltvToTvArray: up to MaxLtvLen bytes, each a length
\* byte of 0, 1, 2 or 3 or the type of a SID record.
LtvPayloads == UNION { [1..n -> { 0, 1, 2, 3, 253 }] : n \in 0..MaxLtvLen }

NextLib ==
  \/ \E x \in CobsPayloads, zeropad \in BOOLEAN : JsCobsEncode(x, zeropad)
  \/ JsCobsDecode
  \/ \E msg \in JsMessages : JsMsgToArray(msg)
  \/ JsArrayToMsg
  \/ \E payload \in LtvPayloads : JsLtvToTvArray(payload)
  \/ \E data \in IntStrings, signed \in BOOLEAN : JsBufToInt(data, signed)

SpecLib == Init /\ [][NextLib]_vars

\* The receive path: transfers that complete at any time, the work item
\* that hands cobs_decoded_stream to message_handler, and two commands.
RxFrames ==
  { InFrame(MESSAGE_TYPE_CMD, "START_ALL_SCAN", n, NoAddr, 0) : n \in SeqNos }
  \cup { InFrame(MESSAGE_TYPE_CMD, "START_SOURCE_SCAN", 0, NoAddr, x) :
            x \in 0..MaxPaAttempt }

NextRx ==
  \/ \E f \in RxFrames : webusb_read_cb(f)
  \/ webusb_rx_work_handler
  \/ \E f \in RxFrames : webusb_rx_work_handler_preempted(f)
  \/ CmdStartAllScan
  \/ \E ok \in BOOLEAN : CmdStartScan(ok)
  \/ Return
  \/ TxWork

SpecRx == Init /\ [][NextRx]_vars

\* The source list up to its capacity: source scans without PA-sync
\* attempts and the advertisements of sources, each new source having the
\* next address.
NextList ==
  \/ RxWork(InFrame(MESSAGE_TYPE_CMD, "START_SOURCE_SCAN", 0, NoAddr, 0))
  \/ \E ok \in BOOLEAN : CmdStartScan(ok)
  \/ Return
  \/ TxWork
  \/ ScanRecvCb(Len(source_data_list.data) + 1, "source", TRUE, TRUE)

SpecList == Init /\ [][NextList]_vars

\* The PA-sync create timeout over the 16-bit PA intervals: every
\* PaIntervalStep-th value and the unknown interval.
PaIntervals ==
  { PaIntervalStep * k : k \in 0..(BT_BAP_PA_INTERVAL_UNKNOWN \div PaIntervalStep) }
  \cup { BT_BAP_PA_INTERVAL_UNKNOWN }

NextTimeout ==
  \E interval \in PaIntervals : PaSyncCreateTimeout(interval)

SpecTimeout == Init /\ [][NextTimeout]_vars

\* Set-member discovery: CSIS scans for every set size, a sink scan beside
\* them, and the advertisements of set members.
Sirks == { 1, 2 }

CsisFrames ==
  { CsisFrame(0, size, 1) : size \in 0..MaxSetSize }
  \cup { InFrame(MESSAGE_TYPE_CMD, "START_SINK_SCAN", 0, NoAddr, 0) }

NextCsis ==
  \/ \E f \in CsisFrames : RxWork(f)
  \/ \E ok \in BOOLEAN : CmdStartScan(ok)
  \/ Return
  \/ TxWork
  \/ \E a \in Addrs, kind \in { "member", "sink_member" }, ok_stop \in BOOLEAN :
        ScanRecvCb(a, kind, TRUE, ok_stop)

SpecCsis == Init /\ [][NextCsis]_vars

\* Seeding of the member table: CSIS scans for every set size and SIRK,
\* connections to one sink, and the advertisements of set members.
SeedFrames ==
  { CsisFrame(0, size, sirk) : size \in 0..MaxSetSize, sirk \in Sirks }
  \cup { InFrame(MESSAGE_TYPE_CMD, "CONNECT_SINK", 0, a, 0) : a \in ScanPeers }

NextSeed ==
  \/ \E f \in SeedFrames : RxWork(f)
  \/ \E ok \in BOOLEAN : CmdStartScan(ok)
  \/ \E ok \in BOOLEAN : CmdConnectSink(ok)
  \/ \E ok, ok_scan \in BOOLEAN : CmdConnectSinkCreate(ok, ok_scan)
  \/ Return
  \/ TxWork
  \/ \E a \in ScanPeers, err, ok_sec, ok_disc, ok_scan \in BOOLEAN :
        ConnectedCb(a, err, ok_sec, ok_disc, ok_scan)
  \/ \E a \in ScanPeers : DisconnectedCb(a)
  \/ \E a \in Addrs : ScanRecvCb(a, "member", TRUE, TRUE)

SpecSeed == Init /\ [][NextSeed]_vars

(* ------------------------------- claims -------------------------------- *)
\* the assistant state a command can touch: heartbeat, scan mode and link
\* layer scan, source-data list, PA sync, connections, CSIS data
AssistantState ==
  << heartbeat_on, ba_scan_mode, ll_scan, source_data_list, pa_sync, ll_pa,
     pa_sync_transfer, pa_timer, del_work, conn, csis >>

\* C1: when message_handler has run for a frame, exactly one RES frame has
\* been queued for the host, and it carries the subtype and the sequence
\* number of that frame.
C1_OneResPerFrame ==
  h.pc = "done" =>
    /\ h.nres = 1
    /\ h.res.type = MESSAGE_TYPE_RES
    /\ h.res.sub = h.sub
    /\ h.res.seq = h.seq

\* C4: with the pool exhausted a send drops its message and the device
\* keeps running: no send path writes through a buffer whose allocation
\* failed.
C4_NoWriteToFailedAlloc == ~null_write /\ ~halted

\* C6: the step that handles a CMD frame of unknown subtype queues a RES of
\* that subtype and sequence number with return code -1 and leaves the
\* assistant state as it was.
C6_UnknownSubtype ==
  [][(h.pc = "dispatch" /\ h.type = MESSAGE_TYPE_CMD /\ h.sub \notin CmdSubTypes
      /\ h'.pc # "dispatch")
     => /\ h'.pc = "done"
        /\ h'.res = Frame(MESSAGE_TYPE_RES, h.sub, h.seq, 0 - 1)
        /\ AssistantState' = AssistantState]_vars

\* C7: the step that handles a frame whose type is not CMD answers with a
\* negative return code and leaves the assistant state and the link layer
\* as they were.
C7_NonCmdNotExecuted ==
  [][(h.pc = "dispatch" /\ h.type # MESSAGE_TYPE_CMD /\ h'.pc # "dispatch")
     => /\ h'.pc = "done"
        /\ h'.rc < 0
        /\ AssistantState' = AssistantState]_vars


\* C2: no PA-sync create is issued to the link layer while it still holds a
\* sync created before (pa_overlap records such a create).
C2_OneSyncOutstanding == ~pa_overlap

\* C3: the handling of an add-source command is never left waiting for
\* sem_pa_sync with nothing that could still give it: no create timer
\* running, no delete work pending, no sync at the link layer and no scan
\* that could create one.
C3_AddSourceNotBlocked ==
  ~ ( /\ h.pc \in { "as_wait_del", "as_wait_sync" }
      /\ sem_pa_sync = 0
      /\ ~pa_timer /\ ~del_work
      /\ ll_pa = "none" /\ ~ll_scan
      /\ ~halted )

\* C9: a stop-scan command answered with return code 0 leaves scan_mode
\* idle, the link-layer scan stopped and no PA sync outstanding (an existing
\* one has been handed to the delete work). Runs that exhausted the transmit
\* pool are left out.
C9_StopScanClears ==
  [][(/\ h.pc = "dispatch" /\ h.sub = "STOP_SCAN"
      /\ h'.pc = "done" /\ h'.rc = 0 /\ ~null_write')
     => /\ ba_scan_mode' = BROADCAST_ASSISTANT_SCAN_IDLE
        /\ ~ll_scan'
        /\ (pa_sync' = NoAddr \/ del_work')]_vars

\* C11: a BASS remove-source action is taken on a connection only when the
\* modify-source action of that connection completed, and with the source id
\* of that modify action.
C11_RemoveFollowsModify ==
  [][\A a \in Addrs :
       (bass'[a] = "rem" /\ bass[a] # "rem")
       => /\ bass[a] = "mod"
          /\ rem_src_id'[a] = mod_src_id[a]]_vars

\* the commands whose link-layer action C5 is about
\* C12: an add-source command that carries n BIS-sync values hands the add
\* operation one subgroup without preference when n = 0 and otherwise the
\* first min(n, CONFIG_BT_BAP_BASS_MAX_SUBGROUPS) values in their order, and
\* the parsed command never holds more values than that maximum.
C12_SubgroupsBounded ==
  [][/\ Len(h'.bis_sync) <= MaxSubgroups
     /\ (h'.pc = "as_add" /\ h.pc # "as_add")
        => LET n == Len(h.bis_sync)
           IN IF n = 0
              THEN h'.subgroup = << BT_BAP_BIS_SYNC_NO_PREF >>
              ELSE /\ Len(h'.subgroup) = Min(n, MaxSubgroups)
                   /\ \A i \in 1..Len(h'.subgroup) :
                        h'.subgroup[i] = h.bis_sync[i]]_vars

\* C13: an add-source command creates a PA sync and waits for one only while
\* a connected sink supports PAST; without such a sink it goes to the BASS
\* add-source action directly.
C13_PaSyncOnlyWithPast ==
  [][(h.sub = "ADD_SOURCE" /\ h'.pc # h.pc
      /\ h'.pc \in { "as_wait_del", "as_wait_sync" })
     => \E a \in Addrs : Connected(a) /\ past_available(a)]_vars

\* the frames a step appends to the transmit queue
Sent ==
  IF Len(tx_queue') > Len(tx_queue)
  THEN SubSeq(tx_queue', Len(tx_queue) + 1, Len(tx_queue'))
  ELSE << >>

\* the events of a kind among those of a sequence of frames
EncEvents(evts) ==
  { i \in 1..Len(evts) :
      evts[i].sub \in { "NEW_ENC_STATE_" \o e : e \in EncStates } }

PaEvents(evts) ==
  { i \in 1..Len(evts) :
      evts[i].sub \in { "NEW_PA_STATE_" \o e : e \in PaStates } }

BisEvents(evts) ==
  { i \in 1..Len(evts) : evts[i].sub \in { "BIS_SYNCED", "BIS_NOT_SYNCED" } }

\* C14: a receive-state notification emits an encryption-state event only if
\* its encryption state differs from the snapshot of the connection and a
\* PA-state event only if its PA-sync state differs from it; the same state
\* delivered twice in a row on a connection emits no event the second time.
C14_EventsOnlyOnChange ==
  [][LET old == ba_recv_state[rs'.a]
     IN /\ EncEvents(Sent) # {}
             => rs'.st.encrypt_state # old.encrypt_state
        /\ PaEvents(Sent) # {}
             => rs'.st.pa_sync_state # old.pa_sync_state
        /\ EncEvents(Sent) \cup PaEvents(Sent) \cup BisEvents(Sent) # {}
             => rs' # rs]_vars

\* C15: a receive-state notification that changes the BIS-sync value of at
\* least one subgroup emits exactly one aggregate BIS event, and that event is
\* BIS_NOT_SYNCED whenever a subgroup changed to 0xFFFFFFFF, whatever the
\* other subgroups changed to. Runs that exhausted the transmit pool are
\* left out.
C15_OneAggregateBisEvent ==
  [][(rs' # rs /\ ~null_write')
     => LET old == ba_recv_state[rs'.a]
            st == rs'.st
            changed == { i \in 1..st.num_subgroups :
                           st.bis_sync[i] # old.bis_sync[i] }
        IN changed # {}
           => /\ Cardinality(BisEvents(Sent)) = 1
              /\ (\E i \in changed : st.bis_sync[i] = BIG_SYNC_FAILED)
                   => \A k \in BisEvents(Sent) :
                        Sent[k].sub = "BIS_NOT_SYNCED"]_vars

\* C16: when a sink disconnects, the receive-state snapshot of its connection
\* is cleared.
C16_SnapshotClearedOnDisconnect ==
  [][\A a \in Addrs :
       (Connected(a) /\ conn'[a] = "none")
       => ba_recv_state'[a] = ZeroRecvState]_vars

\* C17: on every connection BASS discovery starts only from a link whose
\* security is being set up, SINK_CONNECTED with error code 0 is sent only by
\* the step that ends BASS discovery with success, and volume-control and
\* CSIP discovery are started only by that step and only when none of the
\* same kind is in progress.
C17_SetupOrder ==
  [][LET done == { a \in Addrs : conn[a] = "discovering" /\ conn'[a] = "ready" }
         ok_evt == { i \in 1..Len(Sent) : Sent[i] = Evt("SINK_CONNECTED", 0) }
     IN /\ \A a \in Addrs :
             (conn'[a] = "discovering" /\ conn[a] # "discovering")
             => conn[a] = "securing"
        /\ ok_evt # {} => done # {}
        /\ (vcs_work' /\ (~vcs_work \/ vcs_conn' # vcs_conn))
             => vcs_conn' \in done /\ vcs_conn = NoAddr /\ ~vcs_work
        /\ (csis_work' /\ (~csis_work \/ csis_conn' # csis_conn))
             => csis_conn' \in done /\ csis_conn = NoAddr /\ ~csis_work]_vars

\* a sink is set up: its event is queued and both discoveries were started
\* for it
C17_Witness ==
  /\ conn[1] = "ready"
  /\ \E i \in 1..Len(tx_queue) : tx_queue[i] = Evt("SINK_CONNECTED", 0)
  /\ vcs_conn = 1 /\ csis_conn = 1

\* C18: frames leave for the host in the order in which they were handed to
\* webusb_transmit, each once: a step either leaves the transmit queue
\* alone, puts frames behind those waiting, or takes the oldest frame for
\* the USB transfer.
C18_TransmitInOrder ==
  [][\/ tx_queue' = tx_queue
     \/ /\ Sent # << >>
        /\ tx_queue' = tx_queue \o Sent
     \/ /\ tx_queue # << >>
        /\ tx_queue' = Tail(tx_queue)]_vars

\* the response to the connect command was handed over before the event of
\* the discovery; the response has left and the event is next
C18_Witness ==
  /\ ~null_write
  /\ h.pc = "idle"
  /\ conn[1] = "ready"
  /\ attempt = [peer |-> 1, outcome |-> "disc_ok"]
  /\ tx_queue = << Evt("SINK_CONNECTED", 0) >>

\* C19: after any sequence of heartbeat and reset commands, once the last of
\* them is handled and the firmware runs, the heartbeat is on exactly when an
\* odd number of heartbeat commands arrived since the last reset (or since
\* start-up).
C19_HeartbeatParity ==
  (~halted /\ h.pc = "idle") => (heartbeat_on = hb_cmds_odd)

\* the heartbeat ran for a tick and is off again, after a second heartbeat
\* command or a reset
C19_Witness ==
  /\ ~halted /\ h.pc = "idle"
  /\ heartbeat_cnt > 0
  /\ ~heartbeat_on /\ ~hb_cmds_odd

\* C20: after a transfer that fails frame parsing (fewer than 5 bytes, or a
\* payload size that does not match) the read loop drops that frame and
\* keeps reading, and every well-formed frame is dispatched as a message
\* event.
C20_ReadLoopContinues ==
  [][host'.n # host.n
     => /\ host'.reading
        /\ arrayToMsg(host'.data).ok => host'.msgs = host.msgs + 1]_vars

\* C21: a received frame is dispatched as a command only if it has at least
\* 5 bytes and its length field equals the number of payload bytes received;
\* any other frame is rejected and no command runs for it.
C21_MalformedRejected ==
  [][(h.pc = "dispatch" /\ h'.pc # "dispatch") => h.wf = "ok"]_vars

\* C22: decoding what cobsEncode made of a byte sequence, with the same
\* zeropad, gives the byte sequence back.
C22_CobsRoundTrip ==
  host.js.fn = "cobsDecode" => host.js.ret = host.js.x

C22_Witness ==
  /\ host.js.fn = "cobsDecode"
  /\ Len(host.js.x) >= 254
  /\ \E k \in 1..Len(host.js.x) : host.js.x[k] = 0
  /\ \A k \in 1..254 : host.js.x[k] # 0

\* C23: the output of cobsEncode has no zero byte when zeropad is false, and
\* exactly one, in the last position, when zeropad is true.
C23_CobsZeroBytes ==
  host.js.fn = "cobsEncode" =>
    LET ret == host.js.ret
        zeros == { k \in 1..Len(ret) : ret[k] = 0 }
    IN zeros = IF host.js.zeropad THEN { Len(ret) } ELSE { }

C23_Witness ==
  /\ host.js.fn = "cobsEncode"
  /\ host.js.zeropad
  /\ \E k \in 1..Len(host.js.x) : host.js.x[k] = 0
  /\ Len(host.js.x) >= 255

C26_SignedValue ==
  LET data == host.js.x
      w == Len(data)
      top == IF data[w] >= 128 THEN data[w] - 256 ELSE data[w]
      RECURSIVE lower(_)
      lower(i) == IF i >= w THEN 0 ELSE data[i] * (256 ^ (i - 1)) + lower(i + 1)
  IN host.js.fn = "bufToInt" /\ host.js.signed /\ w \in 1..4 =>
       /\ host.js.ret.ok
       /\ host.js.ret.val = top * (256 ^ (w - 1)) + lower(1)

\* C25: ltvToTvArray stops at the first record whose length byte is 0 or
\* whose value would extend past the end of the buffer; it returns the
\* records decoded before that point and does not throw, and no byte after
\* that point contributes a record.
C25_LtvStopsAtMalformed ==
  LET payload == host.js.x
      \* the records up to the first malformed one; a record that is a type
      \* byte alone has no value and gives no item
      RECURSIVE before(_)
      before(i) ==
        IF i > Len(payload) THEN << >>
        ELSE IF payload[i] = 0 \/ i + payload[i] > Len(payload) THEN << >>
        ELSE (IF payload[i] = 1 THEN << >>
              ELSE << [type |-> payload[i + 1],
                       bytes |-> SubSeq(payload, i + 2, i + payload[i])] >>)
             \o before(i + payload[i] + 1)
      recs == before(1)
      ret == host.js.ret
  IN host.js.fn = "ltvToTvArray" =>
       /\ ret.ok
       /\ Len(ret.res) = Len(recs)
       /\ \A k \in 1..Len(recs) : ret.res[k].type = recs[k].type

\* the addresses that have an entry in list l
Listed(l) == { l.data[i].addr : i \in 1..Len(l.data) }

\* C27: a successful start-source-scan with budget B leaves the source-data
\* list empty and stores B; B changes in no other step; an address that
\* enters the list starts with countdown B (less one when the same report's
\* PA-sync creation was accepted).
C27_BudgetRearmed ==
  [][LET start == /\ h.pc = "dispatch" /\ h.sub = "START_SOURCE_SCAN"
                  /\ h'.pc = "done" /\ h'.rc = 0
         B == source_data_list.pa_attempt
     IN /\ start => /\ Len(source_data_list'.data) = 0
                     /\ source_data_list'.pa_attempt = h.arg
        /\ source_data_list'.pa_attempt # B => start
        /\ \A a \in Listed(source_data_list') \ Listed(source_data_list) :
              \/ AttemptCd(source_data_list', a) = B
              \/ /\ AttemptCd(source_data_list', a) = B - 1
                 /\ pa_sync = NoAddr /\ pa_sync' = a]_vars

C27_Witness ==
  /\ source_data_list.pa_attempt = MaxPaAttempt
  /\ Len(source_data_list.data) = 2
  /\ \E i \in 1..2 : source_data_list.data[i].pa_attempt_cd = MaxPaAttempt

\* the countdown the scan path finds for a: that of its entry, or the budget
\* a new entry is given
CdBefore(a) ==
  IF a \in Listed(source_data_list) THEN AttemptCd(source_data_list, a)
  ELSE source_data_list.pa_attempt

\* C28 as stated: every PA-sync creation attempt of the scan path (the create
\* timer is started by an advertising report) takes one off the countdown of
\* an address.
C28_EveryAttemptDecrements ==
  [][~pa_timer /\ pa_timer' /\ h' = h =>
       \E a \in Listed(source_data_list') :
          AttemptCd(source_data_list', a) = CdBefore(a) - 1]_vars

\* C28, amended: every PA-sync creation of the scan path that the link layer
\* accepts takes one off the countdown of its address, which was above zero;
\* no attempt is made while every countdown is zero; a countdown never goes
\* up while its entry stays in the list.
C28_AcceptedDecrements ==
  [][/\ pa_sync = NoAddr /\ pa_sync' # NoAddr /\ h' = h =>
          /\ CdBefore(pa_sync') > 0
          /\ AttemptCd(source_data_list', pa_sync') = CdBefore(pa_sync') - 1
     /\ ~pa_timer /\ pa_timer' /\ h' = h =>
          \E a \in Addrs : CdBefore(a) > 0
     /\ \A a \in Listed(source_data_list) \cap Listed(source_data_list') :
          AttemptCd(source_data_list', a) <= AttemptCd(source_data_list, a)]_vars

C28_Witness ==
  /\ pa_sync # NoAddr
  /\ ll_pa = "pending"
  /\ source_data_list.pa_attempt = MaxPaAttempt
  /\ AttemptCd(source_data_list, pa_sync) = MaxPaAttempt - 1

\* C29: a PA report on the current sync that contains a BASE sends one
\* SOURCE_BASE_FOUND event and hands the sync to deletion exactly when the
\* transfer-pending flag is not set; a report for any other sync object sends
\* nothing and deletes nothing.
C29_BaseReport ==
  [][pr' # pr /\ ~null_write' =>
       IF pr'.sync # pa_sync
       THEN /\ tx_queue' = tx_queue
            /\ del_work' = del_work /\ pa_timer' = pa_timer
       ELSE pr'.base_found =>
              /\ Sent = << Evt("SOURCE_BASE_FOUND", 0) >>
              /\ ~pa_sync_transfer => del_work' /\ ~pa_timer'
              /\ pa_sync_transfer =>
                   del_work' = del_work /\ pa_timer' = pa_timer]_vars

C29_Witness ==
  /\ pr.base_found /\ pr.sync = pa_sync
  /\ pa_sync_transfer /\ ~del_work
  /\ ~null_write

\* C30: after an accepted PA-sync create exactly one of two things happens:
\* the synced callback arrives and the create timer is cancelled, after which
\* the timer never deletes that sync, or the timer expires and the sync is
\* deleted. So a sync whose synced callback has arrived is deleted only once
\* a BASE report has handed it to deletion (there is none in SpecCycle),
\* never by the timer.
C30_SyncedOrTimedOut ==
  [][pa_sync # NoAddr /\ pa_sync' = NoAddr /\ ll_pa = "synced" =>
       pr.sync = pa_sync /\ pr.base_found]_vars

\* the addresses recorded in a member table
MemberSet(c) == { c.members[i] : i \in 1..Len(c.members) }

\* C31: a successful START_CSIS_SCAN stores the requested set size and SIRK
\* and leaves the discovered-members set holding exactly the addresses of the
\* peers that are connected at that moment, whatever an earlier CSIS scan
\* had recorded.
C31_SeededWithConnected ==
  [][(h.pc = "dispatch" /\ h.sub = "START_CSIS_SCAN" /\ h'.pc = "done"
      /\ h'.rc = 0)
     => /\ csis'.set_size = h.arg
        /\ csis'.sirk = h.sirk
        /\ MemberSet(csis') = { a \in Addrs : Connected(a) }]_vars

IsPrefix(s, t) == Len(s) <= Len(t) /\ \A i \in 1..Len(s) : s[i] = t[i]

\* C32: every command frame decoded from USB is given to message_handler
\* exactly once and with its own bytes: the frames the handler was given are
\* always the frames decoded so far, in their order, and once the work
\* queue is idle with no receive work queued none is missing.
C32_EveryFrameDispatchedOnce ==
  /\ IsPrefix(rx.disp, rx.recv)
  /\ (h.pc = "idle" /\ ~rx.work) => rx.disp = rx.recv

\* C33: the reference bt_conn_le_create hands to connect-sink is released
\* exactly once over the life of the connection: the application never
\* releases more than the one reference it holds, and when the connection
\* object is gone the reference has been released.
C33_ReferenceReleasedOnce ==
  \A a \in Addrs :
    /\ conn_ref[a] \in { 0, 1 }
    /\ conn[a] = "none" => conn_ref[a] = 0

\* C34: once the link layer has reported that the current PA sync
\* terminated, the PA-sync handle becomes empty: when the link layer holds
\* no sync and neither the create timer nor the delete work is left to run,
\* pa_sync is NULL, so that scan_for_source and the PA_SYNC command can
\* create the next sync.
C34_TerminatedSyncCleared ==
  (ll_pa = "none" /\ ~pa_timer /\ ~del_work) => pa_sync = NoAddr

\* C35: pa_sync_transfer is set only while the PA sync that the latest
\* add-source command created is outstanding: once that sync has been
\* deleted, has timed out or has terminated, so that pa_sync is NULL again,
\* the flag is clear (and pa_recv_cb deletes a sync the scan path creates
\* later as soon as its BASE is found).
C35_TransferOnlyWhileSyncOutstanding ==
  pa_sync_transfer => pa_sync # NoAddr

C37_MembersWithinTable ==
  Len(csis.members) <= CONFIG_BT_MAX_CONN

\* C38: reset_source_data writes only to slots inside the 50-entry array
\* of the list, in every reachable state, a list of 50 entries included.
C38_ResetWithinArray ==
  ~source_data_list.outside

\* C39: the duration of the PA-sync create timer in milliseconds is ten
\* times the sync timeout handed to the link layer (which counts in units
\* of 10 ms), for every PA interval, the unknown interval included.
C39_TimerMatchesSyncTimeout ==
  pa_create.duration_ms = 10 * pa_create.timeout

LinkCommands == { "CONNECT_SINK", "DISCONNECT_SINK", "ADD_SOURCE", "REMOVE_SOURCE" }

\* C5: when the link-layer action behind a connect-sink, disconnect-sink,
\* add-source or remove-source command failed (h.llfail), the RES sent for
\* the command carries a non-zero return code.
C5_LinkFailureInRes ==
  (h.pc = "done" /\ h.sub \in LinkCommands /\ h.llfail /\ h.nres = 1)
  => h.res.rc # 0

\* C8: during a sequence of successful start-scan commands issued from idle
\* (ss.on: no stop, scan timeout, CSIS completion or new connect command
\* since its first command) scan_mode is the bitwise OR of the requested
\* modes (ss.modes) and the link-layer scan start has been issued exactly
\* once (ss.starts). Runs that exhausted the transmit pool are left out.
C8_ScanModeIsUnion ==
  (ss.on /\ ~null_write) => /\ ba_scan_mode = ss.modes
                            /\ ss.starts = 1

\* the outcomes of a connect-sink attempt: connection-create failure,
\* connection failure, security failure, discovery failing to start,
\* discovery failure and discovery success
FinalOutcomes ==
  { "create_failed", "conn_failed", "secset_failed", "sec_failed",
    "disc_start_failed", "disc_failed", "disc_ok" }

\* C10: once a connect-sink attempt that arrived while scan_mode was non-zero
\* (attempt_scan) has resolved and its connection is settled, scan_mode has
\* the bits it had and the link-layer scan is running. A scan start the link
\* layer refuses, which clears scan_mode, is not counted against the claim,
\* nor is a run that exhausted the transmit pool.
C10_ScanRestored ==
  ( /\ attempt_scan # BROADCAST_ASSISTANT_SCAN_IDLE
    /\ ~null_write
    /\ attempt.outcome \in FinalOutcomes
    /\ conn[attempt.peer] \in { "none", "ready", "linked" } )
  => \/ ba_scan_mode = attempt_scan /\ ll_scan
     \/ ba_scan_mode = BROADCAST_ASSISTANT_SCAN_IDLE
====
